---------------------------- MODULE Spec2Model ----------------------------
(***************************************************************************)
(* Model of booka66/lexcryption: the self-decrypting archive script        *)
(* (encrypt_file.zsh, installed as bin/senc), the SecureViewer workspace   *)
(* lifecycle (decryptFile / cleanupTempFiles / clearContent /              *)
(* saveAndEncryptFile / auto-delete timer) and the FileCache snapshot.     *)
(*                                                                         *)
(* File names, passwords and contents are sequences of tokens.  A token    *)
(* is one byte ("z", "n", "p", BS = backslash, LF = newline) or a known    *)
(* name suffix (".senc", ".png").                                          *)
(***************************************************************************)
EXTENDS Integers, Sequences, FiniteSets, TLC

VARIABLES
    \* ---- archive codec run (encrypt_file.zsh and the archive preamble)
    cPhase,          \* "input" | "encoded" | "decoded"
    cName,           \* $1 of encrypt_file: the input file name
    cContent,        \* bytes of the input file
    cStdin,          \* what encrypt_file reads on stdin (password, verify)
    cFs,             \* files of the working directory: name -> data
    cRc,             \* exit status of encrypt_file
    cPw,             \* password line given to the archive when it is run
    cOut,            \* result of running the archive
    \* ---- SecureViewer
    wsDirs,          \* temp directories on disk: id -> set of files
    nextDir,         \* number of directories createSecureTempDir has made
    tempFiles,       \* std::vector<fs::path> tempFiles
    timerActive,     \* autoDeleteTimer->isActive()
    timerLeft,       \* autoDeleteTimer->remainingTime(), in minutes
    currentFilePath, \* QString currentFilePath
    saveEnabled,     \* saveButton->isEnabled()
    passwordInput,   \* passwordInput->text()
    shown,           \* what the content stack displays
    userFiles,       \* the user's files: path -> data
    pwdFile,         \* the temp_pwd_<pid> file exists
    searchPaths,     \* std::vector<fs::path> searchPaths
    currentSearchIndex,
    fileList,        \* sidebar list (UserRole paths)
    searchTimerOn,   \* searchTimer->isActive()
    last,            \* last handler run and what it reported
    alive,           \* the process runs (FALSE after ~SecureViewer)
    \* ---- FileCache
    cache,           \* QHash<QString, CacheEntry> cache
    snapshot,        \* file_cache.json
    diskFiles,       \* files on disk: path -> [lastModified, size]
    now,             \* QDateTime::currentSecsSinceEpoch()
    fcPhase,         \* "off" | "on": a FileCache object exists
    watchedDirectories, \* QSet<QString> watchedDirectories
    watchedFiles,    \* the file paths given to fileWatcher->addPath
    events,          \* change notifications not yet delivered
    writes,          \* number of changes made to the files on disk
    lastLoad,        \* what loadCache found when the object was made
    lastScan,        \* the findEncryptedFiles call of the last step, if any
    diskDirs,        \* directories on disk
    lastEvent        \* the notification the last step delivered, if any

codecVars  == <<cPhase, cName, cContent, cStdin, cFs, cRc, cPw, cOut>>
viewerVars == <<wsDirs, nextDir, tempFiles, timerActive, timerLeft,
                currentFilePath, saveEnabled, passwordInput, shown,
                userFiles, pwdFile, searchPaths, currentSearchIndex,
                fileList, searchTimerOn, last, alive>>
cacheVars  == <<cache, snapshot, diskFiles, now, fcPhase, watchedDirectories,
                watchedFiles, events, writes, lastLoad, lastScan, diskDirs,
                lastEvent>>
vars == <<codecVars, viewerVars, cacheVars>>

-----------------------------------------------------------------------------
(* Tokens and bounded input sets *)

LF == "LF"
BS == "BS"
SencExt == ".senc"
PngExt == ".png"

MaxNameLen == 2
MaxContentLen == 2
MaxPwTail == 2

SeqsOfLen(S, lo, hi) == UNION {[1..k -> S] : k \in lo..hi}

\* file names without a newline, as typed at encrypt_file: Up is the text
\* "../"
Up == "../"
NameChars == {"z", "n", BS, Up}
Names == SeqsOfLen(NameChars, 1, MaxNameLen)

\* the number of "../" a path begins with
RECURSIVE UpLevels(_)
UpLevels(p) == IF p # <<>> /\ Head(p) = Up THEN 1 + UpLevels(Tail(p)) ELSE 0

\* dirname: the leading "../" of a path
DirName(p) == SubSeq(p, 1, UpLevels(p))

\* the path can name a regular file, the directories involved holding no
\* subdirectory: some "../", then a name without a separator
IsFilePath(p) ==
    LET base == SubSeq(p, UpLevels(p) + 1, Len(p))
    IN  base # <<>> /\ \A i \in DOMAIN base : base[i] # Up

\* arbitrary bytes, the empty content included
ContentBytes == {"z", LF}
Contents == SeqsOfLen(ContentBytes, 0, MaxContentLen)

\* passwords of at least MinPasswordLen characters
MinPasswordLen == 6
PwChars == {"p", BS}
PwStem == [i \in 1..(MinPasswordLen - 1) |-> "p"]
Passwords == {PwStem \o t : t \in SeqsOfLen(PwChars, 1, MaxPwTail)}


-----------------------------------------------------------------------------
(* Shell primitives used by encrypt_file.zsh and by the archive preamble *)

\* the first line of a byte stream, without its newline
RECURSIVE FirstLine(_)
FirstLine(s) ==
    IF s = <<>> \/ Head(s) = LF THEN <<>>
    ELSE <<Head(s)>> \o FirstLine(Tail(s))

\* tail -n +2: everything after the first newline
RECURSIVE AfterFirstLine(_)
AfterFirstLine(s) ==
    IF s = <<>> THEN <<>>
    ELSE IF Head(s) = LF THEN Tail(s)
    ELSE AfterFirstLine(Tail(s))

\* zsh's builtin echo expands backslash escapes in its argument:
\* \n is a newline, \\ a backslash, an unknown escape is kept as it is
RECURSIVE ZshEchoArg(_)
ZshEchoArg(s) ==
    IF s = <<>> THEN <<>>
    ELSE IF Head(s) = BS /\ Len(s) >= 2 /\ s[2] = "n"
         THEN <<LF>> \o ZshEchoArg(Tail(Tail(s)))
    ELSE IF Head(s) = BS /\ Len(s) >= 2 /\ s[2] = BS
         THEN <<BS>> \o ZshEchoArg(Tail(Tail(s)))
    ELSE <<Head(s)>> \o ZshEchoArg(Tail(s))

\* echo "$x": the expanded argument and a newline
ZshEcho(s) == ZshEchoArg(s) \o <<LF>>

\* read without -r: a backslash quotes the next character and is removed,
\* backslash-newline continues the line, an unquoted newline ends it
RECURSIVE ZshReadFrom(_, _)
ZshReadFrom(s, acc) ==
    IF s = <<>> THEN [val |-> acc, rest |-> <<>>]
    ELSE IF Head(s) = LF THEN [val |-> acc, rest |-> Tail(s)]
    ELSE IF Head(s) = BS
         THEN IF Len(s) = 1 THEN [val |-> acc, rest |-> <<>>]
              ELSE IF s[2] = LF THEN ZshReadFrom(Tail(Tail(s)), acc)
              ELSE ZshReadFrom(Tail(Tail(s)), Append(acc, s[2]))
    ELSE ZshReadFrom(Tail(s), Append(acc, Head(s)))

ZshRead(s) == ZshReadFrom(s, <<>>)

-----------------------------------------------------------------------------
(* File data.  A plain file is its bytes; an archive is the bootstrap      *)
(* preamble, the marker line and the ciphertext, which is kept as the key  *)
(* it was made with and the payload it encrypts.                           *)

\* the lines of an archive: the bootstrap, the marker line, the ciphertext
Bootstrap == "bootstrap"
Marker == "__ENCRYPTED_DATA_BELOW__"
Ciphertext == "ciphertext"

PlainFile(bytes) ==
    [senc |-> FALSE, key |-> <<>>, bytes |-> bytes, lines |-> <<>>]
\* cat > "$output_file" << 'EOF' ... EOF, then openssl enc >> "$output_file"
ArchiveFile(key, payload) ==
    [senc |-> TRUE, key |-> key, bytes |-> payload,
     lines |-> <<Bootstrap, Marker, Ciphertext>>]

PreambleBytes == 1767
MinArchiveBytes == 500

\* wc -c of an archive: the preamble and at least the payload's bytes
ArchiveSize(a) == PreambleBytes + Len(a.bytes)

RemoveKey(f, k) == [x \in DOMAIN f \ {k} |-> f[x]]
PutKey(f, k, v) == [x \in DOMAIN f \cup {k} |-> IF x = k THEN v ELSE f[x]]

\* openssl enc -aes-256-cbc -pass stdin: the key is the first line of stdin
CipherKey(pwvar) == FirstLine(ZshEcho(pwvar))

\* temp_enc: echo "$input_file" > temp_enc; cat "$input_file" >> temp_enc
Payload(input_file, bytes) == ZshEcho(input_file) \o bytes

\* encrypt_file without rm "$input_file"
EncryptFileKeepsInput(input_file, fs, stdin, cipherOk) ==
    LET output_file == input_file \o <<SencExt>>
        r1 == ZshRead(stdin)
        r2 == ZshRead(r1.rest)
        a  == ArchiveFile(CipherKey(r1.val),
                          Payload(input_file, fs[input_file].bytes))
    IN  IF input_file \notin DOMAIN fs \/ output_file \in DOMAIN fs
           \/ r1.val # r2.val
        THEN [rc |-> 1, fs |-> fs, ran |-> FALSE]
        ELSE IF cipherOk /\ ArchiveSize(a) > MinArchiveBytes
        THEN [rc |-> 0, fs |-> PutKey(fs, output_file, a), ran |-> TRUE]
        ELSE [rc |-> 1, fs |-> fs, ran |-> TRUE]

\* encrypt_file <input_file>, run in a directory holding the files fs with
\* stdin on its standard input; cipherOk: openssl enc exits 0
EncryptFile(input_file, fs, stdin, cipherOk) ==
    LET output_file == input_file \o <<SencExt>>
        r1 == ZshRead(stdin)
        r2 == ZshRead(r1.rest)
        a  == ArchiveFile(CipherKey(r1.val),
                          Payload(input_file, fs[input_file].bytes))
    IN  IF input_file \notin DOMAIN fs
        THEN [rc |-> 1, fs |-> fs, ran |-> FALSE]
        ELSE IF output_file \in DOMAIN fs
        THEN [rc |-> 1, fs |-> fs, ran |-> FALSE]
        ELSE IF r1.val # r2.val
        THEN [rc |-> 1, fs |-> fs, ran |-> FALSE]
        ELSE IF cipherOk /\ ArchiveSize(a) > MinArchiveBytes
        THEN [rc |-> 0, fs |-> PutKey(RemoveKey(fs, input_file), output_file, a),
              ran |-> TRUE]
        ELSE [rc |-> 1, fs |-> fs, ran |-> TRUE]

\* encrypt_file when cat "$input_file" >> "$temp_enc" stops early (the
\* input cannot be read, or the temporary file cannot grow): copied is what
\* reached the temporary file. The script does not test cat's status, and
\* the size test counts the preamble, so openssl's output is accepted.
EncryptFileCatFails(input_file, fs, stdin, cipherOk, copied) ==
    LET output_file == input_file \o <<SencExt>>
        r1 == ZshRead(stdin)
        r2 == ZshRead(r1.rest)
        a  == ArchiveFile(CipherKey(r1.val), Payload(input_file, copied))
    IN  IF input_file \notin DOMAIN fs
        THEN [rc |-> 1, fs |-> fs, ran |-> FALSE]
        ELSE IF output_file \in DOMAIN fs
        THEN [rc |-> 1, fs |-> fs, ran |-> FALSE]
        ELSE IF r1.val # r2.val
        THEN [rc |-> 1, fs |-> fs, ran |-> FALSE]
        ELSE IF cipherOk /\ ArchiveSize(a) > MinArchiveBytes
        THEN [rc |-> 0, fs |-> PutKey(RemoveKey(fs, input_file), output_file, a),
              ran |-> TRUE]
        ELSE [rc |-> 1, fs |-> fs, ran |-> TRUE]

\* what openssl enc -d may write when the key is not the one used to
\* encrypt: CBC with PKCS#7 padding carries no authentication, so the run
\* either reports "bad decrypt" or succeeds with unrelated bytes
BadDecrypt == <<"bad decrypt">>
WrongKeyPlain == {<<"z">>, <<"z", LF, "z">>, <<LF, "z">>}
WrongKeyOutcomes == {BadDecrypt} \cup WrongKeyPlain

\* openssl enc -d -aes-256-cbc -pbkdf2 with password pw; wrong: the outcome
\* drawn for a wrong key
CipherDecrypt(a, pw, wrong) == IF pw = a.key THEN a.bytes ELSE wrong

\* awk '/^__ENCRYPTED_DATA_BELOW__/ { print NR; exit 0; }': the number of the
\* first marker line from line i on, 0 when there is none
RECURSIVE FirstMarker(_, _)
FirstMarker(lines, i) ==
    IF i > Len(lines) THEN 0
    ELSE IF lines[i] = Marker THEN i
    ELSE FirstMarker(lines, i + 1)

\* tail -n +$((SCRIPT_END + 1)) "$0" > "$TEMP_DIR/data.enc"
DataEnc(lines, SCRIPT_END) == SubSeq(lines, SCRIPT_END + 1, Len(lines))

\* openssl enc -d on data.enc: anything but the ciphertext openssl wrote
\* (a marker line in front of the salt header, or after the last block) is
\* refused
DecryptData(a, data, pw, wrong) ==
    IF data # <<Ciphertext>> THEN BadDecrypt ELSE CipherDecrypt(a, pw, wrong)

\* a run that left nothing, with the error it printed
NoOutput(err) ==
    [rc |-> 1, wrote |-> FALSE, name |-> <<>>, bytes |-> <<>>,
     outside |-> FALSE, err |-> err, scratch |-> {}]

\* the files of $TEMP_DIR once tail and openssl have run: the ciphertext and
\* what openssl wrote of the decrypted data
ScratchFiles == {"data.enc", "decrypted_data"}

\* an exit without the EXIT trap: $TEMP_DIR stays as it is
CleanupNotRun(files) == files

\* cleanup(), the EXIT trap: rm -rf "$TEMP_DIR"
Cleanup(files) == {}

\* exit after mktemp -d: what is left of $TEMP_DIR goes into the result
AtExit(out) == [out EXCEPT !.scratch = Cleanup(ScratchFiles)]

\* the output accepted whatever its size
AnySize(body) == TRUE

\* [[ -s "$OUTPUT_PATH" ]]: the output file exists and is not empty
NotEmpty(body) == body # <<>>

\* the archive run as a program with pw as its password line: exit status,
\* the error printed, and the file it leaves (name relative to the archive's
\* directory, bytes) when wrote; outside: that file is not in the archive's
\* directory; scratch: the files left in $TEMP_DIR
RunArchive(a, pw, wrong) ==
    LET SCRIPT_END == FirstMarker(a.lines, 1)
        plain == DecryptData(a, DataEnc(a.lines, SCRIPT_END), pw, wrong)
        ORIGINAL_NAME == FirstLine(plain)
        body == AfterFirstLine(plain)
    IN  IF ~a.senc THEN NoOutput("not an archive")
        ELSE IF SCRIPT_END = 0 THEN NoOutput("Invalid archive format")
        ELSE IF plain = BadDecrypt
        THEN AtExit(NoOutput("Decryption failed - incorrect password?"))
        ELSE IF ~IsFilePath(ORIGINAL_NAME)
        THEN AtExit(NoOutput("Decryption failed"))
        ELSE IF ~NotEmpty(body) THEN AtExit(NoOutput("Decryption failed"))
        ELSE AtExit([rc |-> 0, wrote |-> TRUE, name |-> ORIGINAL_NAME,
                     bytes |-> body, outside |-> UpLevels(ORIGINAL_NAME) > 0,
                     err |-> "", scratch |-> ScratchFiles])


-----------------------------------------------------------------------------
(* SecureViewer: the files it works on *)

\* the directories under QDir::homePath() and the first character of each
\* directory's own name
SubDirs == [home |-> {"docs", "hid"}, docs |-> {"deep"},
            deep |-> {}, hid |-> {"sub"}, sub |-> {}]
DirFirstChar == [home |-> "h", docs |-> "d", deep |-> "d", hid |-> ".",
                 sub |-> "s"]
DirNames == DOMAIN SubDirs

UserPath(d, n) == [dir |-> d, name |-> n]
NoPath == [dir |-> "", name |-> <<>>]

\* passwords typed into the viewer
PwA == PwStem \o <<"p">>
PwB == PwStem \o <<"p", "p">>
ShortPw == <<"p", "p">>
ViewerPasswords == {PwA, PwB}

\* stdin of bin/senc as saveAndEncryptFile writes it to the password file:
\* out << password << "\n" << password << "\n"
PwdFileText(password) == password \o <<LF>> \o password \o <<LF>>

\* the archive encrypt_file makes of a file (name, bytes) with password pw
MakeArchive(name, bytes, pw) ==
    EncryptFile(name, [x \in {name} |-> PlainFile(bytes)],
                PwdFileText(pw), TRUE).fs[name \o <<SencExt>>]

TextName  == <<"r">>
ImageName == <<"i", PngExt>>
PlainName == <<"n">>
TextArchive  == UserPath("home", TextName \o <<SencExt>>)
ImageArchive == UserPath("docs", ImageName \o <<SencExt>>)
GoneArchive  == UserPath("home", <<"m", SencExt>>)
PlainDoc     == UserPath("docs", PlainName)
BuriedDoc    == UserPath("sub", PlainName)

\* the user's files when the viewer starts
InitUserFiles ==
    [d \in DirNames |->
        IF d = "home"
        THEN [x \in {TextArchive.name} |-> MakeArchive(TextName, <<"z">>, PwA)]
        ELSE IF d = "docs"
        THEN [x \in {ImageArchive.name, PlainName} |->
                IF x = PlainName THEN PlainFile(<<"z", LF>>)
                ELSE MakeArchive(ImageName, <<"z">>, PwA)]
        ELSE IF d = "sub"
        THEN [x \in {PlainName} |-> PlainFile(<<"z", LF>>)]
        ELSE [x \in {} |-> PlainFile(<<>>)]]

UserExists(p) == p.dir \in DirNames /\ p.name \in DOMAIN userFiles[p.dir]

\* paths a decrypt can be asked for: the *.senc files and one missing path
ArchivePaths == {TextArchive, ImageArchive, GoneArchive}

\* entry.path().extension()
Extension(name) ==
    IF name # <<>> /\ name[Len(name)] \in {SencExt, PngExt}
    THEN name[Len(name)] ELSE ""

-----------------------------------------------------------------------------
(* SecureViewer: temp directories and their cleanup *)

MaxDirs == 3

\* autoDeleteTimer->setInterval(10 * 60 * 1000), in minutes
TimerInterval == 10

\* the minutes that pass between two looks at the running timer
TickMinutes == 5

TempPath(d, n) == [dir |-> d, name |-> n]
IsDirPath(p) == p.name = <<>>
RangeOf(q) == {q[i] : i \in DOMAIN q}
NoFiles == [x \in {} |-> PlainFile(<<>>)]

\* the constructor's tempDir
CtorDir == 0

\* fs::file_size
FileSize(f) == IF f.senc THEN ArchiveSize(f) ELSE Len(f.bytes)

\* std::ofstream file(path, std::ios::binary | std::ios::out): opening for
\* output without std::ios::app or std::ios::in truncates the file
OpenForOutput(f) == PlainFile(<<>>)

\* std::vector<char> zeros(4096, 0)
ZerosChunk == 4096

\* while (size > 0) { toWrite = min(size, zeros.size()); write; size -=
\* toWrite; }: the number of bytes written
RECURSIVE ZeroLoop(_)
ZeroLoop(size) ==
    IF size <= 0 THEN 0
    ELSE LET toWrite == IF size < ZerosChunk THEN size ELSE ZerosChunk
         IN  toWrite + ZeroLoop(size - toWrite)

\* the zero bytes written over f: size is read after the file was opened
ZerosWritten(f) == ZeroLoop(FileSize(OpenForOutput(f)))

RECURSIVE Zeros(_)
Zeros(n) == IF n = 0 THEN <<>> ELSE Append(Zeros(n - 1), "0")

\* the file after the wipe: truncated, then ZerosWritten(f) zero bytes
WipeFile(f) == PlainFile(Zeros(ZerosWritten(f)))

\* the loop body without fs::remove_all(path)
CleanupPathNoRemove(p, dirs) ==
    IF p.dir \notin DOMAIN dirs \/ ~IsDirPath(p) THEN dirs
    ELSE [dirs EXCEPT ![p.dir] =
            [n \in DOMAIN dirs[p.dir] |-> WipeFile(dirs[p.dir][n])]]

\* one pass of the loop of cleanupTempFiles over a tracked path
CleanupPath(p, dirs) ==
    IF p.dir \notin DOMAIN dirs THEN dirs
    ELSE IF IsDirPath(p)
    THEN LET wiped == [dirs EXCEPT ![p.dir] =
                         [n \in DOMAIN dirs[p.dir] |-> WipeFile(dirs[p.dir][n])]]
         IN  RemoveKey(wiped, p.dir)
    ELSE IF p.name \in DOMAIN dirs[p.dir]
    THEN [dirs EXCEPT ![p.dir] = RemoveKey(@, p.name)]
    ELSE dirs

\* cleanupTempFiles: the directories left on disk (tempFiles is cleared)
RECURSIVE CleanupTempFiles(_, _)
CleanupTempFiles(tf, dirs) ==
    IF tf = <<>> THEN dirs
    ELSE CleanupTempFiles(Tail(tf), CleanupPath(Head(tf), dirs))

\* A wipe that fails on the file name of directory dir, in one of two ways:
\* "open": the std::ofstream cannot be opened, if (file) is false;
\* "throw": a std::filesystem call of the loop throws, after the files in
\* done have been wiped
WipeFaults(dirs, d) ==
    {[kind |-> k, dir |-> d, name |-> n, done |-> done] :
        k \in {"open", "throw"}, n \in DOMAIN dirs[d],
        done \in SUBSET DOMAIN dirs[d]}
WipeFault(fault) ==
    /\ fault.name \notin fault.done
    /\ fault.kind = "open" => fault.done = {}

\* the pass over the directory path p in which the wipe fails: with "open"
\* the file is left as it is, the others are wiped and fs::remove_all runs;
\* with "throw" control leaves the try block, so the files not yet reached
\* are left as they are and fs::remove_all(path) is not run
CleanupPathFaulty(p, dirs, fault) ==
    IF fault.kind = "open" THEN RemoveKey(dirs, p.dir)
    ELSE [dirs EXCEPT ![p.dir] =
            [n \in DOMAIN dirs[p.dir] |->
                IF n \in fault.done THEN WipeFile(dirs[p.dir][n])
                ELSE dirs[p.dir][n]]]

\* cleanupTempFiles when the wipe fails in the directory fault.dir
RECURSIVE CleanupTempFilesFaulty(_, _, _)
CleanupTempFilesFaulty(tf, dirs, fault) ==
    IF tf = <<>> THEN dirs
    ELSE LET p == Head(tf)
             after == IF /\ IsDirPath(p)
                         /\ p.dir = fault.dir
                         /\ p.dir \in DOMAIN dirs
                      THEN CleanupPathFaulty(p, dirs, fault)
                      ELSE CleanupPath(p, dirs)
         IN  CleanupTempFilesFaulty(Tail(tf), after, fault)

\* qWarning() << "Error during cleanup:" in the catch block
CleanupLog(fault) ==
    IF fault.kind = "throw" THEN "Error during cleanup:" ELSE ""

-----------------------------------------------------------------------------
(* SecureViewer: decryptFile *)

\* escapeShellArg: a backslash is doubled (no quote, $ or ` among the tokens)
RECURSIVE EscapeShellArg(_)
EscapeShellArg(s) ==
    IF s = <<>> THEN <<>>
    ELSE IF Head(s) = BS THEN <<BS, BS>> \o EscapeShellArg(Tail(s))
    ELSE <<Head(s)>> \o EscapeShellArg(Tail(s))

\* sh reading a double-quoted word: backslash-backslash is one backslash
RECURSIVE ShDoubleQuoted(_)
ShDoubleQuoted(s) ==
    IF s = <<>> THEN <<>>
    ELSE IF Head(s) = BS /\ Len(s) >= 2 /\ s[2] = BS
         THEN <<BS>> \o ShDoubleQuoted(Tail(Tail(s)))
    ELSE <<Head(s)>> \o ShDoubleQuoted(Tail(s))

\* echo "<escaped password>" | ./archive : the line the archive reads
PasswordLine(password) ==
    FirstLine(ZshEcho(ShDoubleQuoted(EscapeShellArg(password))))

\* displayContent: an image extension needs bytes QPixmap can load, any
\* other readable file is shown as text
LoadsAsImage(bytes) == bytes # <<>> /\ Head(bytes) = "img"
DisplayContent(name, f) ==
    IF Extension(name) = PngExt THEN LoadsAsImage(f.bytes) ELSE TRUE

\* what the content stack shows: nothing, a workspace file or a user file
NoShow == [from |-> "none", name |-> <<>>]
Show(from, name) == [from |-> from, name |-> name]

\* what the handler that ran last was given and what it answered
LastOf(op, entry, ok, msg, ws, path, pw, verify, ran) ==
    [op |-> op, entry |-> entry, ok |-> ok, msg |-> msg,
     ws |-> ws, prior |-> RangeOf(tempFiles), path |-> path,
     pw |-> pw, verify |-> verify, ran |-> ran]

\* cleanupTempFiles without tempFiles.clear()
PriorCleanupKeepsPaths ==
    [dirs |-> CleanupTempFiles(tempFiles, wsDirs), tracked |-> tempFiles]

\* decryptFile without its first statement
PriorCleanupSkipped == [dirs |-> wsDirs, tracked |-> tempFiles]

\* clearContent() as the first statement of decryptFile: the directories left
\* on disk and the paths still tracked
PriorCleanup ==
    [dirs |-> CleanupTempFiles(tempFiles, wsDirs), tracked |-> <<>>]

\* decryptFile(encryptedFile, password) called from entry; wrong is what
\* openssl leaves if the key is wrong, save0 the save button at the call
DecryptFile(entry, encryptedFile, password, wrong, save0) ==
    LET cleared == PriorCleanup.dirs
        tracked == PriorCleanup.tracked
        d == nextDir                                        \* createSecureTempDir()
        arch == userFiles[encryptedFile.dir][encryptedFile.name]
        tempEncFile == TempPath(d, encryptedFile.name)
        run == RunArchive(arch, PasswordLine(password), wrong)
        staged == [x \in {encryptedFile.name} |-> arch]
        after == IF run.wrote /\ ~run.outside
                 THEN PutKey(staged, run.name, PlainFile(run.bytes))
                 ELSE staged
        \* the directory scan: regular files, not *.senc, not the staged
        \* archive, written by this call (less than 10 s ago), displayable
        found == {n \in DOMAIN after :
                    /\ Extension(n) # SencExt
                    /\ TempPath(d, n) # tempEncFile
                    /\ DisplayContent(n, after[n])}
    IN  /\ currentFilePath' = NoPath
        /\ IF ~UserExists(encryptedFile)
           THEN /\ wsDirs' = cleared
                /\ tempFiles' = tracked
                /\ nextDir' = nextDir
                /\ timerActive' = FALSE /\ timerLeft' = 0
                /\ shown' = NoShow
                /\ saveEnabled' = save0
                /\ last' = LastOf("decrypt", entry, FALSE, "File not found!",
                                  0, encryptedFile, password, <<>>, FALSE)
           ELSE /\ nextDir < MaxDirs
                /\ nextDir' = nextDir + 1
                /\ wsDirs' = PutKey(cleared, d, after)
                /\ IF run.rc # 0
                   THEN /\ tempFiles' = Append(tracked, TempPath(d, <<>>))
                        /\ timerActive' = FALSE /\ timerLeft' = 0
                        /\ shown' = NoShow
                        /\ saveEnabled' = save0
                        /\ last' = LastOf("decrypt", entry, FALSE,
                                          "Decryption failed", d, encryptedFile,
                                          password, <<>>, TRUE)
                   ELSE IF found = {}
                   THEN /\ tempFiles' = Append(tracked, TempPath(d, <<>>))
                        /\ timerActive' = FALSE /\ timerLeft' = 0
                        /\ shown' = NoShow
                        /\ saveEnabled' = save0
                        /\ last' = LastOf("decrypt", entry, FALSE,
                                          "No decrypted file found!", d,
                                          encryptedFile, password, <<>>, TRUE)
                   ELSE \E n \in found :
                        /\ tempFiles' = tracked \o <<TempPath(d, <<>>), TempPath(d, n)>>
                        /\ timerActive' = TRUE /\ timerLeft' = TimerInterval
                        /\ shown' = Show("workspace", n)
                        /\ saveEnabled' = FALSE
                        /\ last' = LastOf("decrypt", entry, TRUE, "", d,
                                          encryptedFile, password, <<>>, TRUE)

\* the outcomes openssl enc -d can have for archive file f and password pw
DecryptOutcomes(f, pw) ==
    IF UserExists(f) /\ userFiles[f.dir][f.name].key # PasswordLine(pw)
    THEN WrongKeyOutcomes ELSE {BadDecrypt}

\* openFile: the file dialog, then the text of the password field, which the
\* user typed there or into the prompt
OpenFile ==
    /\ alive
    /\ UNCHANGED <<codecVars, cacheVars>>
    /\ \E f \in ArchivePaths, pw \in ViewerPasswords :
        \E wrong \in DecryptOutcomes(f, pw) :
            /\ passwordInput' = pw
            /\ DecryptFile("open", f, pw, wrong, saveEnabled)
    /\ UNCHANGED <<userFiles, pwdFile, searchPaths, currentSearchIndex,
                   fileList, searchTimerOn, alive>>

\* dropEvent with a path ending in .senc: the save button is disabled first
DropArchive ==
    /\ alive
    /\ UNCHANGED <<codecVars, cacheVars>>
    /\ \E f \in ArchivePaths, pw \in ViewerPasswords :
        \E wrong \in DecryptOutcomes(f, pw) :
            /\ UserExists(f)
            /\ passwordInput' = pw
            /\ DecryptFile("drop", f, pw, wrong, FALSE)
    /\ UNCHANGED <<userFiles, pwdFile, searchPaths, currentSearchIndex,
                   fileList, searchTimerOn, alive>>

\* itemDoubleClicked on the sidebar list
SidebarDoubleClick ==
    /\ alive
    /\ UNCHANGED <<codecVars, cacheVars>>
    /\ \E i \in DOMAIN fileList, pw \in ViewerPasswords :
        \E wrong \in DecryptOutcomes(fileList[i], pw) :
            /\ passwordInput' = pw
            /\ DecryptFile("sidebar", fileList[i], pw, wrong, saveEnabled)
    /\ UNCHANGED <<userFiles, pwdFile, searchPaths, currentSearchIndex,
                   fileList, searchTimerOn, alive>>

\* decryptFile in which a std::filesystem call of the staging throws
\* std::filesystem::filesystem_error (fs::create_directory when the temporary
\* directory cannot be written, fs::copy_file when the archive cannot be
\* read): decryptFile and its callers have no try block, the exception
\* leaves the slot and the process is terminated.  dirMade: the workspace
\* directory was made and tracked before the throw
DecryptFileThrows ==
    /\ alive
    /\ UNCHANGED <<codecVars, cacheVars>>
    /\ \E f \in ArchivePaths, pw \in ViewerPasswords, dirMade \in BOOLEAN :
        LET d == nextDir
        IN  /\ UserExists(f)
            /\ nextDir < MaxDirs
            /\ passwordInput' = pw
            /\ currentFilePath' = NoPath
            /\ timerActive' = FALSE /\ timerLeft' = 0
            /\ shown' = NoShow
            /\ wsDirs' = IF dirMade THEN PutKey(PriorCleanup.dirs, d, NoFiles)
                         ELSE PriorCleanup.dirs
            /\ nextDir' = IF dirMade THEN nextDir + 1 ELSE nextDir
            /\ tempFiles' = IF dirMade
                            THEN Append(PriorCleanup.tracked, TempPath(d, <<>>))
                            ELSE PriorCleanup.tracked
            /\ last' = LastOf("decrypt", "open", FALSE, "", d, f, pw, <<>>,
                              FALSE)
    /\ alive' = FALSE
    /\ UNCHANGED <<saveEnabled, userFiles, pwdFile, searchPaths,
                   currentSearchIndex, fileList, searchTimerOn>>

\* a second regular file that is in the workspace when the subprocess has
\* ended: the staged file is run as a program, whatever it is, and the
\* workspace is open to every program of the user
StrayName == <<"s">>
StrayFile == PlainFile(<<"z">>)

\* openFile when the workspace holds a second file after the subprocess ran
DecryptFileCrowded ==
    /\ alive
    /\ UNCHANGED <<codecVars, cacheVars>>
    /\ \E f \in ArchivePaths, pw \in ViewerPasswords :
        \E wrong \in DecryptOutcomes(f, pw) :
            LET d == nextDir
                arch == userFiles[f.dir][f.name]
                run == RunArchive(arch, PasswordLine(pw), wrong)
                staged == [x \in {f.name, StrayName} |->
                              IF x = f.name THEN arch ELSE StrayFile]
                after == IF run.wrote /\ ~run.outside
                         THEN PutKey(staged, run.name, PlainFile(run.bytes))
                         ELSE staged
                found == {n \in DOMAIN after :
                            /\ Extension(n) # SencExt
                            /\ TempPath(d, n) # TempPath(d, f.name)
                            /\ DisplayContent(n, after[n])}
                dirOnly == Append(PriorCleanup.tracked, TempPath(d, <<>>))
            IN  /\ UserExists(f)
                /\ nextDir < MaxDirs
                /\ passwordInput' = pw
                /\ currentFilePath' = NoPath
                /\ nextDir' = nextDir + 1
                /\ wsDirs' = PutKey(PriorCleanup.dirs, d, after)
                /\ IF run.rc # 0 \/ found = {}
                   THEN /\ tempFiles' = dirOnly
                        /\ timerActive' = FALSE /\ timerLeft' = 0
                        /\ shown' = NoShow
                        /\ saveEnabled' = saveEnabled
                        /\ last' = LastOf("decrypt", "open", FALSE,
                                          IF run.rc # 0 THEN "Decryption failed"
                                          ELSE "No decrypted file found!",
                                          d, f, pw, <<>>, TRUE)
                   ELSE \E n \in found :
                        /\ tempFiles' = Append(dirOnly, TempPath(d, n))
                        /\ timerActive' = TRUE /\ timerLeft' = TimerInterval
                        /\ shown' = Show("workspace", n)
                        /\ saveEnabled' = FALSE
                        /\ last' = LastOf("decrypt", "open", TRUE, "", d, f,
                                          pw, <<>>, TRUE)
    /\ UNCHANGED <<userFiles, pwdFile, searchPaths, currentSearchIndex,
                   fileList, searchTimerOn, alive>>

-----------------------------------------------------------------------------
(* SecureViewer: clearContent, the timer, the destructor *)

\* clearContent() without autoDeleteTimer->stop()
ClearContentTimerRuns(op) ==
    /\ wsDirs' = CleanupTempFiles(tempFiles, wsDirs)
    /\ tempFiles' = <<>>
    /\ timerActive' = (timerActive /\ timerLeft > 0)    \* single shot
    /\ timerLeft' = timerLeft
    /\ currentFilePath' = NoPath
    /\ shown' = NoShow
    /\ last' = LastOf(op, "", TRUE, "", 0, NoPath, <<>>, <<>>, FALSE)

\* clearContent(), run for handler op
ClearContent(op) ==
    /\ wsDirs' = CleanupTempFiles(tempFiles, wsDirs)
    /\ tempFiles' = <<>>
    /\ timerActive' = FALSE
    /\ timerLeft' = 0
    /\ currentFilePath' = NoPath
    /\ shown' = NoShow
    /\ last' = LastOf(op, "", TRUE, "", 0, NoPath, <<>>, <<>>, FALSE)

\* the Clear button: clearContent, and the save button is disabled
ClearButton ==
    /\ alive
    /\ UNCHANGED <<codecVars, cacheVars>>
    /\ ClearContent("clear")
    /\ saveEnabled' = FALSE
    /\ UNCHANGED <<nextDir, passwordInput, userFiles, pwdFile, searchPaths,
                   currentSearchIndex, fileList, searchTimerOn, alive>>

\* the Clear button when the wipe of a file in a tracked workspace fails
ClearButtonWipeFails ==
    /\ alive
    /\ UNCHANGED <<codecVars, cacheVars>>
    /\ \E i \in DOMAIN tempFiles :
        /\ IsDirPath(tempFiles[i])
        /\ tempFiles[i].dir \in DOMAIN wsDirs
        /\ \E fault \in WipeFaults(wsDirs, tempFiles[i].dir) :
            /\ WipeFault(fault)
            /\ wsDirs' = CleanupTempFilesFaulty(tempFiles, wsDirs, fault)
            /\ last' = LastOf("clear", fault.kind, FALSE, CleanupLog(fault),
                              fault.dir, TempPath(fault.dir, fault.name),
                              <<>>, <<>>, TRUE)
    /\ tempFiles' = <<>>
    /\ timerActive' = FALSE
    /\ timerLeft' = 0
    /\ currentFilePath' = NoPath
    /\ shown' = NoShow
    /\ saveEnabled' = FALSE
    /\ UNCHANGED <<nextDir, passwordInput, userFiles, pwdFile, searchPaths,
                   currentSearchIndex, fileList, searchTimerOn, alive>>

\* time passes on the running single-shot timer
TimerTick ==
    /\ alive
    /\ UNCHANGED <<codecVars, cacheVars>>
    /\ timerActive
    /\ timerLeft > 0
    /\ timerLeft' = IF timerLeft > TickMinutes THEN timerLeft - TickMinutes
                    ELSE 0
    /\ UNCHANGED <<wsDirs, nextDir, tempFiles, timerActive, currentFilePath,
                   saveEnabled, passwordInput, shown, userFiles, pwdFile,
                   searchPaths, currentSearchIndex, fileList, searchTimerOn,
                   last, alive>>

\* autoDeleteTimer's timeout signal, connected to clearContent
TimerExpired ==
    /\ alive
    /\ UNCHANGED <<codecVars, cacheVars>>
    /\ timerActive
    /\ timerLeft = 0
    /\ ClearContent("expire")
    /\ UNCHANGED <<nextDir, saveEnabled, passwordInput, userFiles, pwdFile,
                   searchPaths, currentSearchIndex, fileList, searchTimerOn,
                   alive>>

\* ~SecureViewer: cleanupTempFiles, then tempDir is removed
Quit ==
    /\ alive
    /\ UNCHANGED <<codecVars, cacheVars>>
    /\ alive' = FALSE
    /\ wsDirs' = RemoveKey(CleanupTempFiles(tempFiles, wsDirs), CtorDir)
    /\ tempFiles' = <<>>
    /\ timerActive' = FALSE
    /\ timerLeft' = 0
    /\ searchTimerOn' = FALSE
    /\ shown' = NoShow
    /\ last' = LastOf("quit", "", TRUE, "", 0, NoPath, <<>>, <<>>, FALSE)
    /\ UNCHANGED <<nextDir, currentFilePath, saveEnabled, passwordInput,
                   userFiles, pwdFile, searchPaths, currentSearchIndex,
                   fileList>>

-----------------------------------------------------------------------------
(* SecureViewer: the sidebar search *)

\* the test on filename().string()[0] left out
NothingHidden(d) == FALSE

\* the test on filename().string()[0] turned round
HiddenInverted(d) == DirFirstChar[d] # "."

\* entry.path().filename().string()[0] == '.'
Hidden(d) == DirFirstChar[d] = "."

\* the orders in which a directory iterator may hand out a set of entries
Orderings(S) ==
    {q \in [1..Cardinality(S) -> S] : \A x \in S : \E i \in DOMAIN q : q[i] = x}

\* addEncFile without the look through the items already listed
AppendEncFiles(list, q) == list \o q

\* addEncFile for each path of q in turn: a path already listed is skipped
RECURSIVE AddEncFiles(_, _)
AddEncFiles(list, q) ==
    IF q = <<>> THEN list
    ELSE AddEncFiles(IF Head(q) \in RangeOf(list) THEN list
                     ELSE Append(list, Head(q)), Tail(q))

\* searchNextDirectory: one tick of searchTimer
SearchNextDirectory ==
    /\ alive
    /\ UNCHANGED <<codecVars, cacheVars>>
    /\ searchTimerOn
    /\ IF currentSearchIndex >= Len(searchPaths)
       THEN /\ searchTimerOn' = FALSE
            /\ UNCHANGED <<searchPaths, currentSearchIndex, fileList>>
       ELSE LET currentPath == searchPaths[currentSearchIndex + 1]
                dirs == {d \in SubDirs[currentPath] : ~Hidden(d)}
                encs == {UserPath(currentPath, n) :
                           n \in {m \in DOMAIN userFiles[currentPath] :
                                    Extension(m) = SencExt}}
            IN  \E dq \in Orderings(dirs), fq \in Orderings(encs) :
                  /\ currentSearchIndex' = currentSearchIndex + 1
                  /\ searchPaths' = searchPaths \o dq
                  /\ fileList' = AddEncFiles(fileList, fq)
                  /\ UNCHANGED searchTimerOn
    /\ UNCHANGED <<wsDirs, nextDir, tempFiles, timerActive, timerLeft,
                   currentFilePath, saveEnabled, passwordInput, shown,
                   userFiles, pwdFile, last, alive>>

\* the increment of currentSearchIndex lost when the tick throws
SameIndex(i) == i

\* searchPaths[currentSearchIndex++]: evaluated before anything can throw
NextIndex(i) == i + 1

\* searchNextDirectory when fs::exists, fs::is_directory or the directory
\* iterator throws fs::filesystem_error: the entries handed out before the
\* throw were processed, the catch block swallows the error
SearchNextDirectoryThrows ==
    /\ alive
    /\ UNCHANGED <<codecVars, cacheVars>>
    /\ searchTimerOn
    /\ currentSearchIndex < Len(searchPaths)
    /\ LET currentPath == searchPaths[currentSearchIndex + 1]
           dirs == {d \in SubDirs[currentPath] : ~Hidden(d)}
           encs == {UserPath(currentPath, n) :
                      n \in {m \in DOMAIN userFiles[currentPath] :
                               Extension(m) = SencExt}}
       IN  \E seenDirs \in SUBSET dirs, seenEncs \in SUBSET encs :
             \E dq \in Orderings(seenDirs), fq \in Orderings(seenEncs) :
               /\ currentSearchIndex' = NextIndex(currentSearchIndex)
               /\ searchPaths' = searchPaths \o dq
               /\ fileList' = AddEncFiles(fileList, fq)
    /\ UNCHANGED <<wsDirs, nextDir, tempFiles, timerActive, timerLeft,
                   currentFilePath, saveEnabled, passwordInput, shown,
                   userFiles, pwdFile, last, alive, searchTimerOn>>

\* searchNextDirectory while another program removes an archive of the
\* listed directory and writes it again: the iterator has handed the entry
\* out before the removal and hands out the new one as well
SearchNextDirectoryRelists ==
    /\ alive
    /\ UNCHANGED <<codecVars, cacheVars>>
    /\ searchTimerOn
    /\ currentSearchIndex < Len(searchPaths)
    /\ LET currentPath == searchPaths[currentSearchIndex + 1]
           dirs == {d \in SubDirs[currentPath] : ~Hidden(d)}
           encs == {UserPath(currentPath, n) :
                      n \in {m \in DOMAIN userFiles[currentPath] :
                               Extension(m) = SencExt}}
       IN  \E again \in encs :
             \E dq \in Orderings(dirs), fq \in Orderings(encs) :
               /\ currentSearchIndex' = NextIndex(currentSearchIndex)
               /\ searchPaths' = searchPaths \o dq
               /\ fileList' = AddEncFiles(fileList, Append(fq, again))
    /\ UNCHANGED <<wsDirs, nextDir, tempFiles, timerActive, timerLeft,
                   currentFilePath, saveEnabled, passwordInput, shown,
                   userFiles, pwdFile, last, alive, searchTimerOn>>

\* the symbolic links in each directory that resolve to a directory: docs
\* holds a link named "up" to the home directory
LinkTargets == [d \in DirNames |-> IF d = "docs" THEN {"home"} ELSE {}]

\* how many symbolic links the kernel follows in one path before it gives
\* up with ELOOP
MaxLinkHops == 2

\* how often directory d is in the queue
Enqueued(d) == Cardinality({i \in DOMAIN searchPaths : searchPaths[i] = d})

\* searchNextDirectory on the tree with the link: fs::is_directory follows
\* a link, so the link is pushed like a directory and listed under its own
\* path on a later tick. A queue slot stands for the directory its path
\* resolves to, and a listed file is identified by its directory's slot,
\* as paths through the link differ from the paths without it. Past
\* MaxLinkHops fs::is_directory throws on the link and the catch block ends
\* the tick with the entries that were handed out before it.
SearchNextDirectoryLinked ==
    /\ alive
    /\ UNCHANGED <<codecVars, cacheVars>>
    /\ searchTimerOn
    /\ IF currentSearchIndex >= Len(searchPaths)
       THEN /\ searchTimerOn' = FALSE
            /\ UNCHANGED <<searchPaths, currentSearchIndex, fileList>>
       ELSE LET currentPath == searchPaths[currentSearchIndex + 1]
                links == LinkTargets[currentPath]
                dirs == {d \in SubDirs[currentPath] : ~Hidden(d)}
                encs == {[dir |-> currentPath, name |-> n,
                          slot |-> currentSearchIndex + 1] :
                           n \in {m \in DOMAIN userFiles[currentPath] :
                                    Extension(m) = SencExt}}
                throws == \E t \in links : Enqueued(t) > MaxLinkHops
            IN  \E seenDirs \in IF throws THEN SUBSET dirs
                                 ELSE {dirs \cup links},
                   seenEncs \in IF throws THEN SUBSET encs ELSE {encs} :
                  \E dq \in Orderings(seenDirs), fq \in Orderings(seenEncs) :
                    /\ currentSearchIndex' = NextIndex(currentSearchIndex)
                    /\ searchPaths' = searchPaths \o dq
                    /\ fileList' = AddEncFiles(fileList, fq)
                    /\ UNCHANGED searchTimerOn
    /\ UNCHANGED <<wsDirs, nextDir, tempFiles, timerActive, timerLeft,
                   currentFilePath, saveEnabled, passwordInput, shown,
                   userFiles, pwdFile, last, alive>>

-----------------------------------------------------------------------------
(* SecureViewer: plain files and saveAndEncryptFile *)

\* a file that is not *.senc is dropped on the window, or picked with the
\* Encrypt File button: it becomes currentFilePath and is displayed
PlainFileChosen(entry, f) ==
    /\ alive
    /\ UNCHANGED <<codecVars, cacheVars>>
    /\ UserExists(f)
    /\ currentFilePath' = f
    /\ saveEnabled' = TRUE
    /\ shown' = IF DisplayContent(f.name, userFiles[f.dir][f.name])
                THEN Show("user", f.name) ELSE shown
    /\ last' = LastOf("show", entry, TRUE, "", 0, f, <<>>, <<>>, FALSE)
    /\ UNCHANGED <<wsDirs, nextDir, tempFiles, timerActive, timerLeft,
                   passwordInput, userFiles, pwdFile, searchPaths,
                   currentSearchIndex, fileList, searchTimerOn, alive>>

DropPlain == PlainFileChosen("drop", PlainDoc)

HandleUnencryptedFile == PlainFileChosen("upload", PlainDoc)

\* what the two password prompts of saveAndEncryptFile may return: a
\* cancelled QInputDialog::getText returns an empty string
PromptTexts == {<<>>, ShortPw, PwA, PwB}

\* if (!ok || password.length() < 6)
PasswordInvalid(ok, password) == ~ok \/ Len(password) < MinPasswordLen

\* the verify prompt accepted whatever it returns
VerifyNotChecked(ok, verify, password) == FALSE

\* if (!ok || verify != password)
VerifyFails(ok, verify, password) == ~ok \/ verify # password

\* the password file left where it was written
KeepPwdFile(created) == created

\* QFile::remove(tempPwdFile) on the file pwdFile.open made
RemovePwdFile(created) == FALSE

\* saveAndEncryptFile(filePath): ok1/password and ok2/verify are the prompts'
\* answers, canWrite the password file can be opened, cipherOk openssl works
SaveAndEncryptFile(filePath, ok1, password, ok2, verify, canWrite, cipherOk) ==
    LET enc == EncryptFile(filePath.name, userFiles[filePath.dir],
                           PwdFileText(password), cipherOk)
        quiet(msg) ==
            /\ last' = LastOf("save", "", FALSE, msg, 0, filePath, password,
                              verify, FALSE)
            /\ UNCHANGED <<wsDirs, tempFiles, timerActive, timerLeft,
                           currentFilePath, saveEnabled, shown, userFiles,
                           pwdFile, searchPaths, currentSearchIndex, fileList,
                           searchTimerOn>>
    IN  IF PasswordInvalid(ok1, password)
        THEN quiet("Invalid password!")
        ELSE IF VerifyFails(ok2, verify, password)
        THEN quiet("Passwords do not match!")
        ELSE IF ~canWrite
        THEN quiet("Failed to create temporary password file!")
        ELSE /\ userFiles' = [userFiles EXCEPT ![filePath.dir] = enc.fs]
             /\ pwdFile' = RemovePwdFile(canWrite)
             /\ IF enc.rc = 0
                THEN /\ wsDirs' = CleanupTempFiles(tempFiles, wsDirs)
                     /\ tempFiles' = <<>>
                     /\ timerActive' = FALSE
                     /\ timerLeft' = 0
                     /\ currentFilePath' = NoPath
                     /\ shown' = NoShow
                     /\ fileList' = <<>>           \* startFileSearch()
                     /\ searchPaths' = <<"home">>
                     /\ currentSearchIndex' = 0
                     /\ searchTimerOn' = TRUE
                     /\ saveEnabled' = FALSE
                     /\ last' = LastOf("save", "", TRUE, "", 0, filePath,
                                       password, verify, TRUE)
                ELSE /\ last' = LastOf("save", "", FALSE, "Encryption failed",
                                       0, filePath, password, verify, TRUE)
                     /\ UNCHANGED <<wsDirs, tempFiles, timerActive, timerLeft,
                                    currentFilePath, saveEnabled, shown,
                                    searchPaths, currentSearchIndex, fileList,
                                    searchTimerOn>>

\* the password file and openssl can fail only in a run that reaches them
SaveFaults(password, verify) ==
    IF Len(password) >= MinPasswordLen /\ verify = password
    THEN {TRUE, FALSE} ELSE {TRUE}

\* saveAndEncrypt: the Save and Encrypt button
SaveAndEncrypt ==
    /\ alive
    /\ UNCHANGED <<codecVars, cacheVars>>
    /\ saveEnabled
    /\ currentFilePath # NoPath
    /\ \E password \in PromptTexts, verify \in PromptTexts :
        \E canWrite \in SaveFaults(password, verify) :
        \E cipherOk \in SaveFaults(password, verify) \cup {canWrite} :
            SaveAndEncryptFile(currentFilePath, password # <<>>, password,
                               verify # <<>>, verify, canWrite, cipherOk)
    /\ UNCHANGED <<nextDir, passwordInput, alive>>

-----------------------------------------------------------------------------
(* FileCache: paths, fingerprints and the snapshot file *)

\* paths are strings, written as sequences of tokens so that startsWith is
\* the prefix test on text
Sl == "/"
DirA   == <<Sl, "var">>
DirB   == DirA \o <<Sl, "b">>
DirHid == DirA \o <<Sl, ".", "h">>
DirAb  == <<Sl, "var", "b">>
DirRun == DirA \o <<Sl, "run">>
DirRunSub == DirRun \o <<Sl, "s">>
FX == DirA \o <<Sl, "x", SencExt>>
FY == DirB \o <<Sl, "y", SencExt>>
FH == DirHid \o <<Sl, "w", SencExt>>
FZ == DirAb \o <<Sl, "z", SencExt>>
FT == DirA \o <<Sl, "t">>
\* /var/.k.senc, /var/run/d.senc and /var/run/s/e.senc
FK == DirA \o <<Sl, ".", "k", SencExt>>
FD == DirRun \o <<Sl, "d", SencExt>>
FE == DirRunSub \o <<Sl, "e", SencExt>>
\* /var/n, a directory another program makes later, and /var/n/w.senc
DirNew == DirA \o <<Sl, "n">>
FN == DirNew \o <<Sl, "w", SencExt>>

CacheDirs  == {DirA, DirB, DirHid, DirAb, DirRun, DirRunSub, DirNew}
CacheFiles == {FX, FY, FH, FZ, FT, FK, FD, FE, FN}
ChangingFiles == {FX, FN}
LaterDirs == {DirNew}
ScanRoots  == {DirA}

\* file times on disk are finer than a second: a time is counted in ticks
SubSeconds == {0, 1}
TicksPerSec == Cardinality(SubSeconds)

\* what a write leaves (the files on disk at the start have size 1 and a
\* time on the full second): the same size later within the second, or a
\* new size
WriteKinds == {[sub |-> 1, size |-> 1], [sub |-> 0, size |-> 2]}

MaxWrites == 1
ClockSlack == 1

MAX_CACHE_AGE_DAYS == 7
SecsPerDay == 86400
MaxClock == MAX_CACHE_AGE_DAYS * SecsPerDay + ClockSlack

\* QString::startsWith
StartsWith(s, prefix) ==
    Len(prefix) <= Len(s) /\ SubSeq(s, 1, Len(prefix)) = prefix

\* QString::endsWith(".senc"), also the name filter "*.senc"
EndsWithSenc(path) == path # <<>> /\ path[Len(path)] = SencExt

\* QFileInfo::path(): the text before the last separator
RECURSIVE DirOf(_)
DirOf(path) ==
    IF path = <<>> THEN <<>>
    ELSE IF path[Len(path)] = Sl THEN SubSeq(path, 1, Len(path) - 1)
    ELSE DirOf(SubSeq(path, 1, Len(path) - 1))

\* the last component of a path
RECURSIVE BaseName(_)
BaseName(path) ==
    IF path = <<>> \/ path[Len(path)] = Sl THEN <<>>
    ELSE Append(BaseName(SubSeq(path, 1, Len(path) - 1)), path[Len(path)])

\* path lies in the directory tree below dir
Below(path, dir) == StartsWith(path, Append(dir, Sl))

\* QFileInfo::isHidden of a directory, which a QDirIterator without
\* QDir::Hidden neither lists nor enters
HiddenDir(dir) == Head(BaseName(dir)) = "."
UnderHiddenDir(path, root) ==
    \E dir \in CacheDirs : HiddenDir(dir) /\ Below(dir, root)
                           /\ (path = dir \/ Below(path, dir))

\* QFileInfo::isHidden of a file, which a QDirIterator with QDir::Files and
\* without QDir::Hidden does not list
HiddenFile(path) == Head(BaseName(path)) = "."

ExcludedDirs ==
    {<<Sl, "proc">>, <<Sl, "sys">>, <<Sl, "dev">>, <<Sl, "run">>,
     <<Sl, "snap">>, <<Sl, "var", Sl, "run">>, <<Sl, "var", Sl, "lock">>,
     <<Sl, "private", Sl, "var", Sl, "vm">>, <<Sl, "Library", Sl, "Caches">>,
     <<Sl, "System", Sl, "Volumes">>}

\* shouldSkipDirectory(path); every directory of the tree is readable
ShouldSkipDirectory(path) == Head(path) = "." \/ path \in ExcludedDirs

NoEntries == [x \in {} |-> 0]
NoSnapshot == [exists |-> FALSE, timestamp |-> 0, entries |-> NoEntries]
NoLoad == [stale |-> FALSE, offered |-> {}]
NoEvent == [kind |-> "none", path |-> <<>>]
NoScan == [ran |-> FALSE, startPath |-> <<>>, useCache |-> FALSE,
           hit |-> FALSE, walk |-> {}, results |-> {}, loaded |-> {}]

\* a file on disk: QFileInfo::lastModified() in ticks, QFileInfo::size()
DiskFile(mtime, size) == [mtime |-> mtime, size |-> size]

\* QDateTime::toSecsSinceEpoch
ToSecsSinceEpoch(mtime) == mtime \div TicksPerSec

Fingerprint(lastModified, size) ==
    [lastModified |-> lastModified, size |-> size]

\* the fingerprint a CacheEntry gets from QFileInfo info(path)
FingerprintOf(df) == Fingerprint(ToSecsSinceEpoch(df.mtime), df.size)

\* a CacheEntry, where the index got it from, and the file as it was when
\* the fingerprint was taken
Entry(fp, origin) ==
    [lastModified |-> fp.lastModified, size |-> fp.size, origin |-> origin,
     seen |-> DiskFile(fp.lastModified * TicksPerSec, fp.size)]

\* the CacheEntry made from the file df on disk
EntryOf(df) == [Entry(FingerprintOf(df), "disk") EXCEPT !.seen = df]

\* CacheEntry::isValid
IsValid(path, e, disk) ==
    /\ path \in DOMAIN disk
    /\ ToSecsSinceEpoch(disk[path].mtime) = e.lastModified
    /\ disk[path].size = e.size

\* the age test of loadCache
TooOld(cacheTimestamp, t) ==
    t - cacheTimestamp > MAX_CACHE_AGE_DAYS * SecsPerDay

\* loadCache that trusts a snapshot of any age
LoadCacheAnyAge(snap, disk, t) ==
    IF ~snap.exists THEN NoEntries
    ELSE [q \in {x \in DOMAIN snap.entries :
                    IsValid(x, snap.entries[x], disk)} |->
             Entry(snap.entries[q], "snapshot")]

\* loadCache into the empty index of a new object
LoadCache(snap, disk, t) ==
    IF ~snap.exists THEN NoEntries
    ELSE IF TooOld(snap.timestamp, t) THEN NoEntries
    ELSE [q \in {x \in DOMAIN snap.entries :
                    IsValid(x, snap.entries[x], disk)} |->
             Entry(snap.entries[q], "snapshot")]

\* saveCache without file.write: the snapshot file stays as it is
SaveCacheNoWrite(c, t) == snapshot

\* saveCache: the snapshot written for index c at time t
SaveCache(c, t) ==
    [exists |-> TRUE, timestamp |-> t,
     entries |-> [q \in DOMAIN c |-> Fingerprint(c[q].lastModified, c[q].size)]]

-----------------------------------------------------------------------------
(* FileCache: its operations *)

NotViewing == UNCHANGED <<codecVars, viewerVars>>

\* the files on disk before the first FileCache object is made
InitDiskDirs == CacheDirs \ LaterDirs

InitDiskFiles ==
    [f \in {x \in CacheFiles : DirOf(x) \in InitDiskDirs} |-> DiskFile(0, 1)]

\* the directories QDirIterator(path, QDir::Dirs | QDir::NoDotAndDotDot,
\* Subdirectories) yields that pass shouldSkipDirectory, per root
SubdirsToWatch ==
    [path \in ScanRoots |->
        {d \in CacheDirs : /\ Below(d, path)
                            /\ ~UnderHiddenDir(d, path)
                            /\ ~ShouldSkipDirectory(d)}]

\* watchDirectory(path): the watched directories afterwards
WatchDirectory(path, wd) ==
    IF path \in wd THEN wd
    ELSE wd \cup {path} \cup (SubdirsToWatch[path] \cap diskDirs)

\* the paths QDirIterator(startPath, "*.senc", QDir::Files | QDir::NoSymLinks
\* | QDir::NoDotAndDotDot, Subdirectories) can yield that pass
\* shouldSkipDirectory(info.path()), per root
WalkPaths ==
    [startPath \in ScanRoots |->
        {f \in CacheFiles : /\ Below(f, startPath)
                             /\ EndsWithSenc(f)
                             /\ ~UnderHiddenDir(f, startPath)
                             /\ ~HiddenFile(f)
                             /\ ~ShouldSkipDirectory(DirOf(f))}]

\* the names QDir(path).entryList("*.senc", QDir::Files) can yield, as full
\* paths, per directory
EntryList ==
    [path \in CacheDirs |->
        {f \in CacheFiles : /\ DirOf(f) = path
                             /\ EndsWithSenc(f)
                             /\ ~HiddenFile(f)}]

\* addToCache that inserts only a path the index does not hold yet
AddEntryIfAbsent(c, path, disk) ==
    IF path \in DOMAIN disk /\ EndsWithSenc(path) /\ path \notin DOMAIN c
    THEN PutKey(c, path, EntryOf(disk[path]))
    ELSE c

\* the index after addToCache(path)
AddEntry(c, path, disk) ==
    IF path \in DOMAIN disk /\ EndsWithSenc(path)
    THEN PutKey(c, path, EntryOf(disk[path]))
    ELSE c

\* FileCache::FileCache: setupFileWatcher, loadCache
CacheStart ==
    /\ NotViewing
    /\ fcPhase = "off"
    /\ fcPhase' = "on"
    /\ cache' = LoadCache(snapshot, diskFiles, now)
    /\ lastLoad' =
          [stale |-> snapshot.exists /\ TooOld(snapshot.timestamp, now),
           offered |-> {x \in DOMAIN snapshot.entries :
                           IsValid(x, snapshot.entries[x], diskFiles)}]
    /\ lastScan' = NoScan
    /\ lastEvent' = NoEvent
    /\ UNCHANGED diskDirs
    /\ watchedDirectories' = {}
    /\ watchedFiles' = {}
    /\ events' = {}
    /\ UNCHANGED <<snapshot, diskFiles, now, writes>>

\* FileCache::~FileCache: saveCache, the watcher is deleted
CacheStop ==
    /\ NotViewing
    /\ fcPhase = "on"
    /\ fcPhase' = "off"
    /\ snapshot' = SaveCache(cache, now)
    /\ cache' = NoEntries
    /\ lastLoad' = NoLoad
    /\ lastScan' = NoScan
    /\ lastEvent' = NoEvent
    /\ UNCHANGED diskDirs
    /\ watchedDirectories' = {}
    /\ watchedFiles' = {}
    /\ events' = {}
    /\ UNCHANGED <<diskFiles, now, writes>>

\* findEncryptedFiles(startPath, useCache)
FindEncryptedFiles ==
    /\ NotViewing
    /\ fcPhase = "on"
    /\ \E startPath \in ScanRoots, useCache \in BOOLEAN :
        LET hits == {q \in DOMAIN cache :
                        /\ StartsWith(q, startPath)
                        /\ IsValid(q, cache[q], diskFiles)}
            walked == WalkPaths[startPath] \cap DOMAIN diskFiles
            \* the directory iteration of watchDirectory(startPath)
            dirWalk == IF startPath \in watchedDirectories THEN {}
                       ELSE {"directories"}
            c2 == [q \in DOMAIN cache \cup walked |->
                      IF q \in walked THEN EntryOf(diskFiles[q])
                      ELSE cache[q]]
        IN  /\ watchedDirectories' =
                  WatchDirectory(startPath, watchedDirectories)
            /\ IF useCache /\ hits # {}
               THEN /\ lastScan' =
                          [ran |-> TRUE, startPath |-> startPath,
                           useCache |-> useCache, hit |-> TRUE,
                           walk |-> dirWalk, results |-> hits,
                           loaded |-> {q \in hits :
                                          cache[q].origin = "snapshot"}]
                    /\ UNCHANGED <<cache, snapshot, watchedFiles>>
               ELSE /\ cache' = c2
                    /\ watchedFiles' = watchedFiles \cup walked
                    /\ snapshot' = SaveCache(c2, now)
                    /\ lastScan' =
                          [ran |-> TRUE, startPath |-> startPath,
                           useCache |-> useCache, hit |-> FALSE,
                           walk |-> dirWalk \cup {"files"},
                           results |-> walked, loaded |-> {}]
    /\ lastEvent' = NoEvent
    /\ UNCHANGED <<diskFiles, now, fcPhase, events, writes, lastLoad,
                   diskDirs>>

\* addToCache(path), called on the object
AddToCache ==
    /\ NotViewing
    /\ fcPhase = "on"
    /\ \E path \in ChangingFiles :
        /\ path \in DOMAIN diskFiles /\ EndsWithSenc(path)
        /\ cache' = AddEntry(cache, path, diskFiles)
        /\ watchedFiles' = watchedFiles \cup {path}
        /\ snapshot' = SaveCache(cache', now)
    /\ UNCHANGED <<diskFiles, now, fcPhase, watchedDirectories, events,
                   writes, lastLoad>>
    /\ lastScan' = NoScan
    /\ lastEvent' = NoEvent
    /\ UNCHANGED diskDirs

\* addToCache(path) for an archive of /varb, a directory beside the scan
\* root /var whose name begins with the root's name
AddToCacheBeside ==
    /\ NotViewing
    /\ fcPhase = "on"
    /\ \E path \in {FZ} :
        /\ path \in DOMAIN diskFiles /\ EndsWithSenc(path)
        /\ cache' = AddEntry(cache, path, diskFiles)
        /\ watchedFiles' = watchedFiles \cup {path}
        /\ snapshot' = SaveCache(cache', now)
    /\ UNCHANGED <<diskFiles, now, fcPhase, watchedDirectories, events,
                   writes, lastLoad>>
    /\ lastScan' = NoScan
    /\ lastEvent' = NoEvent
    /\ UNCHANGED diskDirs

\* removeFromCache(path), called on the object
RemoveFromCache ==
    /\ NotViewing
    /\ fcPhase = "on"
    /\ \E path \in ChangingFiles :
        /\ cache' = RemoveKey(cache, path)
        /\ snapshot' = SaveCache(cache', now)
    /\ UNCHANGED <<diskFiles, now, fcPhase, watchedDirectories, watchedFiles,
                   events, writes, lastLoad>>
    /\ lastScan' = NoScan
    /\ lastEvent' = NoEvent
    /\ UNCHANGED diskDirs

\* clearCache()
ClearCache ==
    /\ NotViewing
    /\ fcPhase = "on"
    /\ cache' = NoEntries
    /\ snapshot' = SaveCache(NoEntries, now)
    /\ UNCHANGED <<diskFiles, now, fcPhase, watchedDirectories, watchedFiles,
                   events, writes, lastLoad>>
    /\ lastScan' = NoScan
    /\ lastEvent' = NoEvent
    /\ UNCHANGED diskDirs

\* handleFileChanged(path) for a delivered notification
HandleFileChanged ==
    /\ NotViewing
    /\ fcPhase = "on"
    /\ \E path \in events \cap CacheFiles :
        /\ events' = events \ {path}
        /\ lastEvent' = [kind |-> "file", path |-> path]
        /\ IF ~EndsWithSenc(path)
           THEN UNCHANGED <<cache, snapshot, watchedFiles>>
           ELSE IF path \notin DOMAIN diskFiles
           THEN /\ cache' = RemoveKey(cache, path)
                /\ snapshot' = SaveCache(cache', now)
                /\ UNCHANGED watchedFiles
           ELSE /\ cache' = AddEntry(cache, path, diskFiles)
                /\ watchedFiles' = watchedFiles \cup {path}
                /\ snapshot' = SaveCache(cache', now)
    /\ UNCHANGED <<diskFiles, now, fcPhase, watchedDirectories, writes,
                   lastLoad>>
    /\ lastScan' = NoScan
    /\ UNCHANGED diskDirs

\* handleDirectoryChanged(path) for a delivered notification
HandleDirectoryChanged ==
    /\ NotViewing
    /\ fcPhase = "on"
    /\ \E path \in events \cap CacheDirs :
        LET sencFiles == EntryList[path] \cap DOMAIN diskFiles
            fresh == sencFiles \ DOMAIN cache
        IN  /\ events' = events \ {path}
            /\ lastEvent' = [kind |-> "dir", path |-> path]
            /\ cache' = [q \in DOMAIN cache \cup fresh |->
                            IF q \in fresh THEN EntryOf(diskFiles[q])
                            ELSE cache[q]]
            /\ watchedFiles' = watchedFiles \cup fresh
            /\ snapshot' = IF fresh = {} THEN snapshot
                           ELSE SaveCache(cache', now)
    /\ UNCHANGED <<diskFiles, now, fcPhase, watchedDirectories, writes,
                   lastLoad>>
    /\ lastScan' = NoScan
    /\ UNCHANGED diskDirs

\* another program writes or deletes an archive; the watcher notes it
DiskChange ==
    /\ NotViewing
    /\ writes < MaxWrites
    /\ writes' = writes + 1
    /\ \E path \in ChangingFiles :
        /\ \/ /\ path \in DOMAIN diskFiles
              /\ diskFiles' = RemoveKey(diskFiles, path)
              /\ watchedFiles' = watchedFiles \ {path}
           \/ /\ DirOf(path) \in diskDirs
              /\ \E w \in WriteKinds :
                    diskFiles' = PutKey(diskFiles, path,
                                        DiskFile(now * TicksPerSec + w.sub,
                                                 w.size))
              /\ UNCHANGED watchedFiles
        /\ events' = events \cup ({path} \cap watchedFiles)
                        \cup ({DirOf(path)} \cap watchedDirectories)
    /\ UNCHANGED <<cache, snapshot, now, fcPhase, watchedDirectories,
                   lastLoad>>
    /\ lastScan' = NoScan
    /\ lastEvent' = NoEvent
    /\ UNCHANGED diskDirs

\* the clock moves on: by the maximum age, or by a second up to ClockSlack
\* seconds past a multiple of it
ClockAdvance ==
    /\ NotViewing
    /\ \E step \in {1, MAX_CACHE_AGE_DAYS * SecsPerDay} :
        /\ now + step <= MaxClock
        /\ step = 1 => now % (MAX_CACHE_AGE_DAYS * SecsPerDay) < ClockSlack
        /\ now' = now + step
    /\ UNCHANGED <<cache, snapshot, diskFiles, fcPhase, watchedDirectories,
                   watchedFiles, events, writes, lastLoad, lastScan,
                   diskDirs, lastEvent>>

\* another program makes a directory; the watcher of its parent notes it
DirAppears ==
    /\ NotViewing
    /\ \E d \in LaterDirs \ diskDirs :
        /\ DirOf(d) \in diskDirs
        /\ diskDirs' = diskDirs \cup {d}
        /\ events' = events \cup ({DirOf(d)} \cap watchedDirectories)
    /\ lastScan' = NoScan
    /\ lastEvent' = NoEvent
    /\ UNCHANGED <<cache, snapshot, diskFiles, now, fcPhase,
                   watchedDirectories, watchedFiles, writes, lastLoad>>

-----------------------------------------------------------------------------
(* The viewer as a state machine *)

\* after SecureViewer::SecureViewer: tempDir made, clearContent run, the
\* sidebar search started
ViewerInit ==
    /\ wsDirs = [x \in {CtorDir} |-> NoFiles]
    /\ nextDir = 1
    /\ tempFiles = <<>>
    /\ timerActive = FALSE
    /\ timerLeft = 0
    /\ currentFilePath = NoPath
    /\ saveEnabled = FALSE
    /\ passwordInput = <<>>
    /\ shown = NoShow
    /\ userFiles = InitUserFiles
    /\ pwdFile = FALSE
    /\ searchPaths = <<"home">>
    /\ currentSearchIndex = 0
    /\ fileList = <<>>
    /\ searchTimerOn = TRUE
    /\ last = [op |-> "init", entry |-> "", ok |-> TRUE, msg |-> "",
               ws |-> 0, prior |-> {}, path |-> NoPath, pw |-> <<>>,
               verify |-> <<>>, ran |-> FALSE]
    /\ alive = TRUE

\* the codec run and the file cache at rest
CodecIdle ==
    /\ cPhase = "off"
    /\ cName = <<>>
    /\ cContent = <<>>
    /\ cStdin = <<>>
    /\ cFs = NoFiles
    /\ cRc = 0
    /\ cPw = <<>>
    /\ cOut = NoOutput("")

CacheIdle ==
    /\ cache = NoEntries
    /\ snapshot = NoSnapshot
    /\ diskFiles = NoEntries
    /\ now = 0
    /\ fcPhase = "off"
    /\ watchedDirectories = {}
    /\ watchedFiles = {}
    /\ events = {}
    /\ writes = 0
    /\ lastLoad = NoLoad
    /\ lastScan = NoScan
    /\ diskDirs = {}
    /\ lastEvent = NoEvent

Init == ViewerInit /\ CodecIdle /\ CacheIdle

Next ==
    \/ OpenFile
    \/ DropArchive
    \/ SidebarDoubleClick
    \/ ClearButton
    \/ TimerTick
    \/ TimerExpired
    \/ DropPlain
    \/ HandleUnencryptedFile
    \/ SaveAndEncrypt
    \/ SearchNextDirectory
    \/ Quit

Spec == Init /\ [][Next]_vars

\* the viewer on a file system whose operations can fail
FaultNext ==
    \/ Next
    \/ DecryptFileThrows
    \/ ClearButtonWipeFails

InitFaults == ViewerInit /\ CodecIdle /\ CacheIdle

SpecFaults == InitFaults /\ [][FaultNext]_vars

\* the viewer when a workspace can hold more than the subprocess's one file
CrowdedNext ==
    \/ Next
    \/ DecryptFileCrowded

InitCrowded == ViewerInit /\ CodecIdle /\ CacheIdle

SpecCrowded == InitCrowded /\ [][CrowdedNext]_vars

\* the sidebar search when a listed directory changes under the iterator
RelistNext ==
    \/ DropPlain
    \/ HandleUnencryptedFile
    \/ SaveAndEncrypt
    \/ SearchNextDirectory
    \/ SearchNextDirectoryRelists
    \/ Quit

InitRelist == ViewerInit /\ CodecIdle /\ CacheIdle

SpecRelist == InitRelist /\ [][RelistNext]_vars

\* the sidebar search on a tree that holds a symbolic link to an ancestor
LinkedNext ==
    \/ DropPlain
    \/ SaveAndEncrypt
    \/ SearchNextDirectoryLinked
    \/ Quit

InitLinked == ViewerInit /\ CodecIdle /\ CacheIdle

SpecLinked == InitLinked /\ [][LinkedNext]_vars

\* the viewer when the user also picks a document that lies in an ordinary
\* directory beneath a hidden one
DropPlainBuried == PlainFileChosen("drop", BuriedDoc)

BuriedNext ==
    \/ OpenFile
    \/ ClearButton
    \/ DropPlain
    \/ DropPlainBuried
    \/ SaveAndEncrypt
    \/ SearchNextDirectory
    \/ Quit

InitBuried == ViewerInit /\ CodecIdle /\ CacheIdle

SpecBuried == InitBuried /\ [][BuriedNext]_vars

\* the sidebar search on a file system whose directory listings can fail,
\* with the handlers that write the files it lists, start it anew or end the
\* process; searchTimer keeps firing for as long as it is started and the
\* event loop runs
SearchFaultNext ==
    \/ DropPlain
    \/ HandleUnencryptedFile
    \/ SaveAndEncrypt
    \/ SearchNextDirectory
    \/ SearchNextDirectoryThrows
    \/ Quit

InitSearchFaults == ViewerInit /\ CodecIdle /\ CacheIdle

SearchTimerFires == SearchNextDirectory \/ SearchNextDirectoryThrows

SpecSearchFaults ==
    InitSearchFaults /\ [][SearchFaultNext]_vars /\ WF_vars(SearchTimerFires)

-----------------------------------------------------------------------------
(* The archive codec as a state machine: encrypt_file on one input file,   *)
(* then the archive it made is run with a password.                        *)

\* the viewer not running
ViewerOff ==
    /\ wsDirs = NoFiles
    /\ nextDir = 1
    /\ tempFiles = <<>>
    /\ timerActive = FALSE
    /\ timerLeft = 0
    /\ currentFilePath = NoPath
    /\ saveEnabled = FALSE
    /\ passwordInput = <<>>
    /\ shown = NoShow
    /\ userFiles = InitUserFiles
    /\ pwdFile = FALSE
    /\ searchPaths = <<>>
    /\ currentSearchIndex = 0
    /\ fileList = <<>>
    /\ searchTimerOn = FALSE
    /\ last = [op |-> "off", entry |-> "", ok |-> TRUE, msg |-> "",
               ws |-> 0, prior |-> {}, path |-> NoPath, pw |-> <<>>,
               verify |-> <<>>, ran |-> FALSE]
    /\ alive = FALSE

\* a second password, for a verify line that does not match
OtherPw == PwStem \o <<"p", "p", "p", "p">>

\* what is typed at the two prompts of encrypt_file
TypedStdin(pw, verify) == pw \o <<LF>> \o verify \o <<LF>>

CodecInit ==
    /\ cPhase = "input"
    /\ cName \in Names
    /\ cContent \in Contents
    /\ \E pw \in Passwords : cStdin \in {<<pw, pw>>, <<pw, OtherPw>>}
    /\ cFs = IF IsFilePath(cName) THEN [x \in {cName} |-> PlainFile(cContent)]
             ELSE NoFiles
    /\ cRc = 0
    /\ cPw = <<>>
    /\ cOut = NoOutput("")

\* encrypt_file "$cName" with the two typed lines on stdin
CodecEncrypt ==
    /\ cPhase = "input"
    /\ \E cipherOk \in BOOLEAN :
        LET r == EncryptFile(cName, cFs, TypedStdin(cStdin[1], cStdin[2]),
                             cipherOk)
        IN  /\ cFs' = r.fs
            /\ cRc' = r.rc
    /\ cPhase' = "encoded"
    /\ UNCHANGED <<cName, cContent, cStdin, cPw, cOut>>
    /\ UNCHANGED <<viewerVars, cacheVars>>

\* encrypt_file "$cName" when cat copies only the first n bytes of the input
CodecEncryptCatFails ==
    /\ cPhase = "input"
    /\ cName \in DOMAIN cFs
    /\ \E cipherOk \in BOOLEAN, n \in 0..(Len(cFs[cName].bytes) - 1) :
        LET r == EncryptFileCatFails(cName, cFs,
                                     TypedStdin(cStdin[1], cStdin[2]), cipherOk,
                                     SubSeq(cFs[cName].bytes, 1, n))
        IN  /\ cFs' = r.fs
            /\ cRc' = r.rc
    /\ cPhase' = "encoded"
    /\ UNCHANGED <<cName, cContent, cStdin, cPw, cOut>>
    /\ UNCHANGED <<viewerVars, cacheVars>>

\* OUTPUT_PATH="$(dirname "$0")/$ORIGINAL_NAME" for the archive at path
OutputPath(path, ORIGINAL_NAME) == DirName(path) \o ORIGINAL_NAME

\* the files after the archive at path has run with result out
AfterRun(fs, path, out) ==
    IF out.wrote
    THEN PutKey(fs, OutputPath(path, out.name), PlainFile(out.bytes))
    ELSE fs

\* the archive is run and pw is typed at openssl's password prompt
CodecRun ==
    /\ cPhase = "encoded"
    /\ cRc = 0
    /\ LET a == cFs[cName \o <<SencExt>>]
       IN  \E pw \in Passwords \cup {CipherKey(cStdin[1])} :
           \E wrong \in (IF pw = a.key THEN {BadDecrypt} ELSE WrongKeyOutcomes) :
             LET out == RunArchive(a, pw, wrong)
             IN  /\ cPw' = pw
                 /\ cOut' = out
                 /\ cFs' = AfterRun(cFs, cName \o <<SencExt>>, out)
    /\ cPhase' = "decoded"
    /\ UNCHANGED <<cName, cContent, cStdin, cRc>>
    /\ UNCHANGED <<viewerVars, cacheVars>>

\* what becomes of the lines of an archive that is damaged or edited: the
\* marker line lost, written twice, or written again after the ciphertext
DamagedLines ==
    {<<Bootstrap, Ciphertext>>,
     <<Bootstrap, Marker, Marker, Ciphertext>>,
     <<Bootstrap, Marker, Ciphertext, Marker>>}

\* the archive file is damaged on disk before it is run
CodecDamage ==
    /\ cPhase = "encoded"
    /\ cRc = 0
    /\ \E lines \in DamagedLines :
        cFs' = [cFs EXCEPT ![cName \o <<SencExt>>].lines = lines]
    /\ cPhase' = "damaged"
    /\ UNCHANGED <<cName, cContent, cStdin, cRc, cPw, cOut>>
    /\ UNCHANGED <<viewerVars, cacheVars>>

\* the damaged archive is run with the password it was encrypted with
CodecRunDamaged ==
    /\ cPhase = "damaged"
    /\ LET a == cFs[cName \o <<SencExt>>]
           out == RunArchive(a, a.key, BadDecrypt)
       IN  /\ cPw' = a.key
           /\ cOut' = out
           /\ cFs' = AfterRun(cFs, cName \o <<SencExt>>, out)
    /\ cPhase' = "checked"
    /\ UNCHANGED <<cName, cContent, cStdin, cRc>>
    /\ UNCHANGED <<viewerVars, cacheVars>>

CodecNext ==
    \/ CodecEncrypt
    \/ CodecRun
    \/ CodecDamage
    \/ CodecRunDamaged

InitCodec == CodecInit /\ ViewerOff /\ CacheIdle

SpecCodec == InitCodec /\ [][CodecNext]_vars

\* encrypt_file in a directory that may already hold an archive of the
\* same name, with a cat that can fail
EncryptInit ==
    /\ cPhase = "input"
    /\ cName \in Names
    /\ cContent \in Contents
    /\ \E pw \in Passwords : cStdin \in {<<pw, pw>>, <<pw, OtherPw>>}
    /\ \E old \in BOOLEAN :
         cFs = IF ~IsFilePath(cName) THEN NoFiles
               ELSE [x \in {cName} \cup
                            (IF old THEN {cName \o <<SencExt>>} ELSE {}) |->
                       IF x = cName THEN PlainFile(cContent)
                       ELSE MakeArchive(cName, <<"z">>, OtherPw)]
    /\ cRc = 0
    /\ cPw = <<>>
    /\ cOut = NoOutput("")

EncryptFaultNext ==
    \/ CodecEncrypt
    \/ CodecEncryptCatFails
    \/ CodecRun

InitEncryptFaults == EncryptInit /\ ViewerOff /\ CacheIdle

SpecEncryptFaults == InitEncryptFaults /\ [][EncryptFaultNext]_vars

-----------------------------------------------------------------------------
(* Claims about the archive codec (checked under SpecCodec) *)

\* C1: round trip. For every file name without a newline, every content
\* (the empty content included) and every valid password, running the
\* archive encrypt_file made with the same password yields exactly the
\* file name and the content that were encrypted.
C1_RoundTrip ==
    (cPhase = "decoded" /\ cPw = cStdin[1]) =>
        /\ cOut.rc = 0
        /\ cOut.wrote
        /\ cOut.name = cName
        /\ cOut.bytes = cContent

\* C2: running an archive with a password different from the one it was
\* encrypted with always fails (non-zero exit, no output file kept); it never
\* succeeds with a wrong file name or content.
C2_WrongPasswordFails ==
    (cPhase = "decoded" /\ cPw # cStdin[1]) =>
        /\ cOut.rc # 0
        /\ ~cOut.wrote

\* the archive encrypt_file made, as it is on disk
TheArchive == cFs[cName \o <<SencExt>>]
MarkerCount(lines) == Cardinality({i \in DOMAIN lines : lines[i] = Marker})

\* C16: whatever the original file name stored in an archive, path
\* separators and ".." included, running the archive staged in a directory
\* writes the decrypted output inside that directory and nowhere else.
C16_OutputInsideWorkspace ==
    (cPhase \in {"decoded", "checked"} /\ cOut.wrote) => ~cOut.outside

\* C17: running an archive whose marker line is missing or occurs more than
\* once reports an invalid archive; an archive with exactly one marker line
\* is never reported as invalid, what follows the marker going to the
\* cipher.
C17_MalformedDetected ==
    /\ cPhase = "checked" =>
          (MarkerCount(TheArchive.lines) # 1
              => cOut.err = "Invalid archive format")
    /\ cPhase = "decoded" => cOut.err # "Invalid archive format"

\* what the preamble does keep: a missing marker line is reported as an
\* invalid archive, and no damaged archive yields an output file
C17_MissingMarkerDetected ==
    cPhase = "checked" =>
        /\ cOut.rc # 0 /\ ~cOut.wrote
        /\ MarkerCount(TheArchive.lines) = 0
              => cOut.err = "Invalid archive format"

-----------------------------------------------------------------------------
(* The file cache as a state machine: objects are made and destroyed over  *)
(* a snapshot file that stays on disk, while files change and time passes. *)

CacheInit ==
    /\ cache = NoEntries
    /\ snapshot = NoSnapshot
    /\ diskFiles = InitDiskFiles
    /\ now = 0
    /\ fcPhase = "off"
    /\ watchedDirectories = {}
    /\ watchedFiles = {}
    /\ events = {}
    /\ writes = 0
    /\ lastLoad = NoLoad
    /\ lastScan = NoScan
    /\ diskDirs = InitDiskDirs
    /\ lastEvent = NoEvent

CacheNext ==
    \/ CacheStart
    \/ CacheStop
    \/ FindEncryptedFiles
    \/ AddToCache
    \/ RemoveFromCache
    \/ ClearCache
    \/ HandleFileChanged
    \/ HandleDirectoryChanged
    \/ DiskChange
    \/ ClockAdvance

InitCache == CacheInit /\ ViewerOff /\ CodecIdle

SpecCache == InitCache /\ [][CacheNext]_vars

\* FileCache on a directory tree that grows while it is watched
TreeNext ==
    \/ CacheNext
    \/ DirAppears

InitCacheTree == CacheInit /\ ViewerOff /\ CodecIdle

SpecCacheTree == InitCacheTree /\ [][TreeNext]_vars

\* FileCache when archives outside the scan root are also put in the index
BesideNext ==
    \/ CacheNext
    \/ AddToCacheBeside

InitCacheBeside == CacheInit /\ ViewerOff /\ CodecIdle

SpecCacheBeside == InitCacheBeside /\ [][BesideNext]_vars

-----------------------------------------------------------------------------
(* Claims about the viewer's workspaces (checked under Spec) *)

\* the directories decryptFile made that are on disk
LiveWorkspaces == DOMAIN wsDirs \ {CtorDir}

C4_FailedDecryptTornDown ==
    (last.op = "decrypt" /\ ~last.ok /\ last.ws # 0) =>
        last.ws \notin DOMAIN wsDirs

HoldsDecrypted ==
    \E d \in LiveWorkspaces : \E n \in DOMAIN wsDirs[d] : ~wsDirs[d][n].senc

\* C6: the auto-expiry timer is armed whenever a workspace holds freshly
\* decrypted content; after every successful decrypt the single-shot timer
\* is running.
C6_TimerArmed ==
    /\ HoldsDecrypted => timerActive
    /\ (last.op = "decrypt" /\ last.ok) => timerActive

\* C7: the expiry action runs only for a timer that is armed and was not
\* stopped, on workspaces that are on disk when it fires; it removes every
\* tracked workspace and leaves the timer stopped, so it runs at most once
\* for a workspace.
C7_ExpiryAtMostOnce ==
    [][(last' # last /\ last'.op = "expire") =>
         /\ timerActive /\ timerLeft = 0
         /\ last'.prior # {}
         /\ \A p \in last'.prior :
               p.dir \in DOMAIN wsDirs /\ p.dir \notin DOMAIN wsDirs'
         /\ ~timerActive'
         /\ tempFiles' = <<>>]_vars

\* the timer fired for a tracked workspace and removed it
C7_Witness ==
    /\ last.op = "expire"
    /\ last.prior # {}
    /\ LiveWorkspaces = {}
    /\ ~timerActive

\* C8: when the password is shorter than 6 characters or the confirmation
\* differs (a cancelled prompt returns the empty text), saveAndEncryptFile
\* reports "Invalid password!" resp. "Passwords do not match!", runs no
\* subprocess and leaves every file as it was.
C8_BadPasswordNoEffect ==
    [][(last' # last /\ last'.op = "save"
        /\ (Len(last'.pw) < MinPasswordLen \/ last'.verify # last'.pw)) =>
         /\ ~last'.ok
         /\ ~last'.ran
         /\ last'.msg = IF Len(last'.pw) < MinPasswordLen
                        THEN "Invalid password!"
                        ELSE "Passwords do not match!"
         /\ UNCHANGED <<userFiles, wsDirs, pwdFile>>]_vars

\* a save was refused because the confirmation differed
C8_Witness ==
    /\ last.op = "save"
    /\ Len(last.pw) >= MinPasswordLen
    /\ last.verify # last.pw
    /\ last.msg = "Passwords do not match!"

\* the archive encrypt writes for the file at path p
ArchiveOf(p) == UserPath(p.dir, p.name \o <<SencExt>>)

-----------------------------------------------------------------------------
(* Claims about the file cache (checked under SpecCache) *)

\* C10: when the snapshot read by loadCache was written more than 7 days
\* before the load, the index of that object never holds an entry taken
\* from the snapshot, and no findEncryptedFiles call on it answers a cache
\* hit with a path taken from the snapshot.
C10_StaleSnapshotDiscarded ==
    (fcPhase = "on" /\ lastLoad.stale) =>
        /\ \A q \in DOMAIN cache : cache[q].origin # "snapshot"
        /\ lastScan.loaded = {}

\* a snapshot older than 7 days whose entries validate was loaded, and a
\* scan with useCache = true has run on that object
C10_Witness ==
    /\ fcPhase = "on"
    /\ lastLoad.stale
    /\ lastLoad.offered # {}
    /\ lastScan.ran
    /\ lastScan.useCache

\* C11: an index entry made from a file is valid exactly when the file
\* exists and has the modification time and the size it had when the entry
\* was made: any later change of size or modification time, or the file's
\* deletion, makes the entry invalid.
C11_ValidIffUnchanged ==
    \A q \in DOMAIN cache :
        cache[q].origin = "disk" =>
            (IsValid(q, cache[q], diskFiles)
                <=> (q \in DOMAIN diskFiles /\ diskFiles[q] = cache[q].seen))

\* a step in which findEncryptedFiles ran, with or without a walk for files
ScanStep == lastScan' # lastScan /\ lastScan'.ran
FullWalkStep == ScanStep /\ "files" \in lastScan'.walk

\* path lies beneath a directory below root that the walk is to stay out of
BeneathSkipped(path, root) ==
    \E dir \in CacheDirs :
        /\ Below(dir, root)
        /\ HiddenDir(dir) \/ dir \in ExcludedDirs
        /\ Below(path, dir)

\* C12: a full walk rooted at rootPath returns every regular file of the
\* subtree whose name ends in the archive extension, at every depth, returns
\* no file whose name does not end in it, and each returned file is in the
\* index with its path, modification time and size.
C12_ScanComplete ==
    [][FullWalkStep =>
        /\ \A f \in DOMAIN diskFiles :
              /\ Below(f, lastScan'.startPath)
              /\ EndsWithSenc(f)
              /\ ~BeneathSkipped(f, lastScan'.startPath)
              => f \in lastScan'.results
        /\ \A f \in lastScan'.results :
              /\ EndsWithSenc(f)
              /\ f \in DOMAIN diskFiles
              /\ f \in DOMAIN cache'
              /\ cache'[f].seen = diskFiles[f]]_vars

\* what the walk does keep: what is returned is an existing archive
\* file below the root, indexed with its fingerprint, and every archive file
\* that is not hidden and not beneath a hidden directory is returned
C12_VisibleArchivesFound ==
    [][FullWalkStep =>
        /\ \A f \in DOMAIN diskFiles :
              /\ Below(f, lastScan'.startPath)
              /\ EndsWithSenc(f)
              /\ ~BeneathSkipped(f, lastScan'.startPath)
              /\ ~HiddenFile(f)
              => f \in lastScan'.results
        /\ \A f \in lastScan'.results :
              /\ EndsWithSenc(f)
              /\ f \in DOMAIN diskFiles
              /\ f \in DOMAIN cache'
              /\ cache'[f].seen = diskFiles[f]]_vars

\* C13: the walk returns no archive located anywhere beneath a hidden
\* directory or a directory of the deny-list, at whatever depth below
\* rootPath that directory sits.
C13_SkippedDirsNeverEntered ==
    [][FullWalkStep =>
        \A f \in lastScan'.results :
            ~BeneathSkipped(f, lastScan'.startPath)]_vars

\* C14: a scan with useCache and at least one valid cached entry that starts
\* with rootPath returns exactly the valid cached entries that start with
\* rootPath, walks nothing on disk and leaves the index as it is; any other
\* scan performs a full walk.
C14_CacheHitFastPath ==
    [][ScanStep =>
        LET hits == {q \in DOMAIN cache :
                        /\ StartsWith(q, lastScan'.startPath)
                        /\ IsValid(q, cache[q], diskFiles)}
        IN  IF lastScan'.useCache /\ hits # {}
            THEN /\ lastScan'.results = hits
                 /\ lastScan'.walk = {}
                 /\ cache' = cache
            ELSE "files" \in lastScan'.walk]_vars

\* what findEncryptedFiles does keep: on a hit the result is the set
\* of valid cached entries below the root, no walk for files is made and the
\* index is left alone
C14_HitReturnsCached ==
    [][ScanStep =>
        LET hits == {q \in DOMAIN cache :
                        /\ StartsWith(q, lastScan'.startPath)
                        /\ IsValid(q, cache[q], diskFiles)}
        IN  IF lastScan'.useCache /\ hits # {}
            THEN /\ lastScan'.results = hits
                 /\ "files" \notin lastScan'.walk
                 /\ cache' = cache
            ELSE "files" \in lastScan'.walk]_vars

-----------------------------------------------------------------------------
(* Claims about the pipeline of the viewer (checked under Spec) *)

\* Viewing: decrypted content from a workspace is on display
Viewing == shown.from = "workspace"

\* the Save & Encrypt button would encrypt a file that is not one of the
\* user's own, i.e. the plaintext in the workspace
EncryptsViewed ==
    /\ saveEnabled
    /\ currentFilePath # NoPath
    /\ currentFilePath.dir \notin DirNames

\* C18: the pipeline goes Idle -> Decrypting -> Viewing -> {Idle |
\* Encrypting} -> Idle: while decrypted content is shown the encrypt
\* operation on the viewed plaintext is available, and content from a
\* workspace comes on display only by a decrypt that succeeded.
C18_PipelineTransitions ==
    /\ [](Viewing => EncryptsViewed)
    /\ [][(shown'.from = "workspace" /\ shown' # shown)
            => (last'.op = "decrypt" /\ last'.ok)]_vars

\* what the viewer does keep: Viewing is entered by a successful decrypt
\* only, and in no Viewing state is the plaintext on display the file that
\* Save & Encrypt would encrypt
C18_ViewOnly ==
    /\ [](Viewing => ~EncryptsViewed)
    /\ [][(shown'.from = "workspace" /\ shown' # shown)
            => (last'.op = "decrypt" /\ last'.ok)]_vars

\* after a decrypt that succeeded, the encrypt operation is switched off
C18_SaveOffAfterDecrypt ==
    (last.op = "decrypt" /\ last.ok) => (~saveEnabled /\ currentFilePath = NoPath)

\* the workspace directories a step removes from disk
RemovedDirs == DOMAIN wsDirs \ DOMAIN wsDirs'

\* C19: whenever a workspace directory is removed, every file in it has had
\* its full original length overwritten with zero bytes before: no file is
\* removed while any of its original bytes is still un-overwritten.
C19_OverwrittenBeforeRemoval ==
    [][\A d \in RemovedDirs :
          \A n \in DOMAIN wsDirs[d] :
              ZerosWritten(wsDirs[d][n]) >= FileSize(wsDirs[d][n])]_vars

\* what cleanupTempFiles does keep: every tracked workspace directory is
\* removed with all its files, none of them overwritten by a single byte
C19_TruncatedNotOverwritten ==
    [][\A d \in RemovedDirs :
          \A n \in DOMAIN wsDirs[d] :
              ZerosWritten(wsDirs[d][n]) = 0]_vars

-----------------------------------------------------------------------------
(* Claims about failing file operations (checked under SpecFaults) *)

\* C15: every failure of a decrypt or encrypt attempt is reported to the
\* caller as a failure result: after the attempt the viewer is still
\* running, and an attempt that failed has said why.
C15_FailuresReported ==
    last.op \in {"decrypt", "save"} =>
        /\ alive
        /\ ~last.ok => last.msg # ""

\* what holds when no file operation throws (checked under Spec)
C15_ReportedWithoutFaults ==
    last.op \in {"decrypt", "save"} =>
        /\ alive
        /\ ~last.ok => last.msg # ""
        /\ last.ok => last.msg = ""

\* C20: when the wipe of one file of a tracked workspace fails, the failure
\* is logged, the directory of that workspace is still removed, and every
\* other tracked workspace is still removed as well.
C20_CleanupBestEffort ==
    (last.op = "clear" /\ ~last.ok) =>
        /\ last.msg # ""
        /\ \A p \in last.prior : p.dir \notin DOMAIN wsDirs

\* what cleanupTempFiles does keep when a wipe fails: every other tracked
\* workspace is removed, nothing stays tracked, and a failure that throws is
\* logged
C20_OthersStillProcessed ==
    (last.op = "clear" /\ ~last.ok) =>
        /\ tempFiles = <<>>
        /\ \A p \in last.prior : p.dir # last.ws => p.dir \notin DOMAIN wsDirs
        /\ last.entry = "throw" => last.msg # ""

-----------------------------------------------------------------------------
(* Claims about the index, its snapshot and the watcher (checked under     *)
(* SpecCache)                                                              *)

\* a step of a living FileCache object that changes the index
IndexMutation == fcPhase = "on" /\ fcPhase' = "on" /\ cache' # cache

\* the entries of the snapshot file are those of the index
SnapshotIsIndex(snap, c) ==
    /\ snap.exists
    /\ snap.entries =
          [q \in DOMAIN c |-> Fingerprint(c[q].lastModified, c[q].size)]

\* C21: after every mutation of the index by a full walk, a watch-driven
\* update, addToCache, removeFromCache or clearCache, the entries in the
\* snapshot file are the entries of the in-memory index.
C21_SnapshotFollowsIndex ==
    [][IndexMutation => SnapshotIsIndex(snapshot', cache')]_vars

\* the index holds several entries, one of them re-derived after a write to
\* its file, and the snapshot file holds the same
C21_Witness ==
    /\ fcPhase = "on"
    /\ \E q \in DOMAIN cache :
          /\ q \in DOMAIN diskFiles
          /\ cache[q].seen = diskFiles[q]
          /\ cache[q].seen.mtime > 0
    /\ Cardinality(DOMAIN cache) > 1
    /\ SnapshotIsIndex(snapshot, cache)

\* the step delivers the change notification of the file path
HandledFile(path) ==
    /\ lastEvent'.kind = "file"
    /\ lastEvent'.path = path
    /\ path \in events
    /\ path \notin events'

\* C24: when handleFileChanged returns for a watched archive, the index has
\* no entry for it if the file no longer exists; otherwise it has an entry
\* whose fingerprint was re-derived from the file as it is now, which makes
\* the entry valid.
C24_FileChangeUpserts ==
    [][\A path \in CacheFiles :
          HandledFile(path) /\ EndsWithSenc(path) =>
              IF path \in DOMAIN diskFiles'
              THEN /\ path \in DOMAIN cache'
                   /\ cache'[path].seen = diskFiles'[path]
                   /\ Fingerprint(cache'[path].lastModified, cache'[path].size)
                         = FingerprintOf(diskFiles'[path])
                   /\ IsValid(path, cache'[path], diskFiles')
              ELSE path \notin DOMAIN cache']_vars

\* the notification of a rewritten archive was delivered, and the entry of
\* the archive is the one of its new content
C24_Witness ==
    /\ lastEvent.kind = "file"
    /\ lastEvent.path \in DOMAIN diskFiles
    /\ writes > 0
    /\ diskFiles[lastEvent.path] # DiskFile(0, 1)
    /\ lastEvent.path \in DOMAIN cache
    /\ cache[lastEvent.path].seen = diskFiles[lastEvent.path]

\* the step delivers the change notification of the directory dir
HandledDir(dir) ==
    /\ lastEvent'.kind = "dir"
    /\ lastEvent'.path = dir
    /\ dir \in events
    /\ dir \notin events'

\* the archive files that are immediate children of dir after the step
ArchiveChildren(dir) ==
    {f \in DOMAIN diskFiles' : DirOf(f) = dir /\ EndsWithSenc(f)}

\* the handler leaves every entry it finds as it is, and what it adds are
\* entries of archive children taken from the files as they are
EntriesKept(dir) ==
    /\ \A q \in DOMAIN cache : q \in DOMAIN cache' /\ cache'[q] = cache[q]
    /\ \A q \in DOMAIN cache' \ DOMAIN cache :
          q \in ArchiveChildren(dir) /\ cache'[q] = EntryOf(diskFiles'[q])

\* C25: when handleDirectoryChanged returns for a watched directory, every
\* archive file among its immediate children that was not in the index has
\* been added, and the entries that were in the index are left as they
\* were: not re-derived, and not removed when the child is gone.
C25_DirChangeAddsNew ==
    [][\A dir \in CacheDirs :
          HandledDir(dir) =>
              /\ ArchiveChildren(dir) \subseteq DOMAIN cache'
              /\ EntriesKept(dir)]_vars

\* what the handler does do: the archive children whose name does not begin
\* with a dot are added, the entries already present are left as they were
C25_VisibleChildrenAdded ==
    [][\A dir \in CacheDirs :
          HandledDir(dir) =>
              /\ {f \in ArchiveChildren(dir) : ~HiddenFile(f)}
                    \subseteq DOMAIN cache'
              /\ EntriesKept(dir)]_vars

-----------------------------------------------------------------------------
(* Claims about the watched directories of a tree that grows (checked      *)
(* under SpecCacheTree)                                                     *)

\* the directories on disk after the step that the walk is not to skip:
\* neither hidden nor on the deny-list, nor beneath such a directory
NotSkippedDirs ==
    {d \in diskDirs' : /\ ~HiddenDir(d)
                       /\ d \notin ExcludedDirs
                       /\ \A root \in ScanRoots : ~BeneathSkipped(d, root)}

\* C26: after a scan of rootPath, the first or a later one, rootPath and
\* every non-skipped directory under it are watched; and after the change
\* notification of a watched directory is handled, the non-skipped
\* subdirectories it has by then are watched too.
C26_WatchSetGrowsWithTree ==
    [][/\ ScanStep =>
            LET root == lastScan'.startPath
            IN  /\ root \in watchedDirectories'
                /\ \A d \in NotSkippedDirs :
                      Below(d, root) => d \in watchedDirectories'
       /\ \A dir \in CacheDirs :
            HandledDir(dir) =>
                \A d \in NotSkippedDirs :
                    DirOf(d) = dir => d \in watchedDirectories']_vars

\* what watchDirectory does do: the scan that finds rootPath not yet watched
\* leaves rootPath and every non-skipped directory under it watched, and a
\* watched directory stays watched while the object lives
C26_FirstScanCovers ==
    [][/\ ScanStep /\ lastScan'.startPath \notin watchedDirectories =>
            LET root == lastScan'.startPath
            IN  /\ root \in watchedDirectories'
                /\ \A d \in NotSkippedDirs :
                      Below(d, root) => d \in watchedDirectories'
       /\ fcPhase' = "on" /\ fcPhase = "on" =>
            watchedDirectories \subseteq watchedDirectories']_vars

-----------------------------------------------------------------------------
(* Claims about the sidebar search (checked under Spec) *)

\* a tick of searchTimer that finds a directory left in the queue
SearchTick ==
    /\ searchTimerOn
    /\ currentSearchIndex < Len(searchPaths)
    /\ last' = last
    /\ <<searchPaths, currentSearchIndex, fileList>>' #
          <<searchPaths, currentSearchIndex, fileList>>

\* C22: each tick processes exactly one queued directory, enqueuing its
\* non-hidden subdirectories and recording its archive files: the scanned
\* count N grows by exactly one, never exceeds the queue length M, and the
\* queue only grows at its end.
C22_OneDirectoryPerTick ==
    /\ [](currentSearchIndex <= Len(searchPaths))
    /\ [][SearchTick =>
            LET dir == searchPaths[currentSearchIndex + 1]
                new == {searchPaths'[i] :
                          i \in (Len(searchPaths) + 1)..Len(searchPaths')}
            IN  /\ currentSearchIndex' = currentSearchIndex + 1
                /\ Len(searchPaths') >= Len(searchPaths)
                /\ SubSeq(searchPaths', 1, Len(searchPaths)) = searchPaths
                /\ new = {d \in SubDirs[dir] : DirFirstChar[d] # "."}
                /\ Len(searchPaths') = Len(searchPaths) + Cardinality(new)
                /\ \A n \in DOMAIN userFiles[dir] :
                      Extension(n) = SencExt
                          => UserPath(dir, n) \in RangeOf(fileList')
                /\ RangeOf(fileList) \subseteq RangeOf(fileList')]_vars

\* the scan has gone two levels down and listed an archive
C22_Witness ==
    /\ currentSearchIndex >= 2
    /\ Len(searchPaths) >= 3
    /\ fileList # <<>>
    /\ searchTimerOn

-----------------------------------------------------------------------------
(* Claims about the sidebar search when directory listings fail (checked   *)
(* under SpecSearchFaults)                                                  *)

\* startFileSearch begins a scan anew
ScanRestarted ==
    /\ searchTimerOn'
    /\ currentSearchIndex' = 0
    /\ currentSearchIndex > 0 \/ ~searchTimerOn

\* the scan is complete: the timer was stopped by the tick that found every
\* queued directory visited
ScanComplete ==
    ~searchTimerOn /\ currentSearchIndex = Len(searchPaths)

\* C23: an error on one directory during discovery aborts only that
\* directory's branch: the tick still counts the directory as visited, the
\* queue and the archives listed so far are kept, the timer stops only when
\* every queued directory was visited, and the scan reaches completion
\* unless the window is closed or a new scan is started over and over.
C23_ErrorAbortsOneBranch ==
    /\ [][SearchTick =>
            LET dir == searchPaths[currentSearchIndex + 1]
                new == {searchPaths'[i] :
                          i \in (Len(searchPaths) + 1)..Len(searchPaths')}
            IN  /\ currentSearchIndex' = currentSearchIndex + 1
                /\ searchTimerOn'
                /\ Len(searchPaths') >= Len(searchPaths)
                /\ SubSeq(searchPaths', 1, Len(searchPaths)) = searchPaths
                /\ new \subseteq SubDirs[dir]
                /\ Len(fileList') >= Len(fileList)
                /\ SubSeq(fileList', 1, Len(fileList)) = fileList]_vars
    /\ [](alive /\ ~searchTimerOn => ScanComplete)
    /\ ([]<>(ScanComplete \/ ~alive) \/ []<><<ScanRestarted>>_vars)

\* the listing of the home directory failed before any entry was handed out,
\* and the scan ended with that one directory visited
C23_Witness ==
    /\ alive
    /\ ScanComplete
    /\ searchPaths = <<"home">>
    /\ SubDirs["home"] # {}

-----------------------------------------------------------------------------
(* Claims about what decryptFile takes as its result (checked under         *)
(* SpecCrowded)                                                             *)

\* the last handler was a decryptFile that returned true
DecryptSucceeded == last.op = "decrypt" /\ last.ok

\* the files of workspace d that qualify as the decrypted result: regular
\* files other than the staged archive, without the archive extension; every
\* file of a workspace the call has just made is newer than 10 seconds
Qualifying(d) ==
    {n \in DOMAIN wsDirs[d] : Extension(n) # SencExt /\ n # last.path.name}

\* the subprocess of the last decryptFile can have ended with status 0
ExitedZero ==
    \E wrong \in DecryptOutcomes(last.path, last.pw) :
        RunArchive(userFiles[last.path.dir][last.path.name],
                   PasswordLine(last.pw), wrong).rc = 0

\* C28: decryptFile returns true only if the subprocess ended with status 0
\* and a qualifying file was found; the file it takes is a regular file of
\* the new workspace that is neither the staged archive nor named *.senc;
\* and it does not return true when several files qualify.
C28_SuccessNeedsOneOutput ==
    DecryptSucceeded =>
        /\ UserExists(last.path)
        /\ ExitedZero
        /\ last.ws \in DOMAIN wsDirs
        /\ shown.from = "workspace"
        /\ shown.name \in Qualifying(last.ws)
        /\ TempPath(last.ws, shown.name) \in RangeOf(tempFiles)
        /\ Cardinality(Qualifying(last.ws)) = 1

\* what decryptFile does do: it returns true only after status 0 and with a
\* qualifying, displayable file of the new workspace taken as the result
C28_SuccessNeedsExitAndFile ==
    DecryptSucceeded =>
        /\ UserExists(last.path)
        /\ ExitedZero
        /\ last.ws \in DOMAIN wsDirs
        /\ shown.from = "workspace"
        /\ shown.name \in Qualifying(last.ws)
        /\ TempPath(last.ws, shown.name) \in RangeOf(tempFiles)
        /\ DisplayContent(shown.name, wsDirs[last.ws][shown.name])

-----------------------------------------------------------------------------
(* Claims about decryptFile on a missing archive (checked under Spec) *)

\* the step is a decryptFile that answered "File not found!"
NotFoundStep ==
    /\ last' # last
    /\ last'.op = "decrypt"
    /\ last'.msg = "File not found!"

-----------------------------------------------------------------------------
(* Claims about an archive with an empty payload (checked under SpecCodec) *)

\* the undamaged archive was run with its key, and what it holds after the
\* line with the file name is empty
EmptyPayloadRun ==
    /\ cPhase = "decoded"
    /\ cPw = TheArchive.key
    /\ AfterFirstLine(TheArchive.bytes) = <<>>

\* C30: an archive whose decrypted content after the file name line is empty
\* fails: the run ends with a non-zero status and the error message, and no
\* file is left at the original file name.
C30_EmptyPayloadFails ==
    EmptyPayloadRun =>
        /\ cOut.rc # 0
        /\ ~cOut.wrote
        /\ cOut.err = "Decryption failed"
        /\ OutputPath(cName \o <<SencExt>>, FirstLine(TheArchive.bytes))
              \notin DOMAIN cFs

\* the archive of an empty file was run with the right password, under a
\* name the run could have written to
C30_Witness ==
    /\ EmptyPayloadRun
    /\ cContent = <<>>
    /\ IsFilePath(FirstLine(TheArchive.bytes))
    /\ cOut.rc = 1

-----------------------------------------------------------------------------
(* Claims about re-indexing after a successful encrypt *)

\* the last handler was a saveAndEncryptFile whose senc run succeeded
SaveSucceeded == last.op = "save" /\ last.ok

\* the archive that run wrote next to the document
NewArchive == UserPath(last.path.dir, last.path.name \o <<SencExt>>)

\* the directories the running scan has listed so far
VisitedDirs == {searchPaths[i] : i \in 1..currentSearchIndex}

RECURSIVE BelowHidden(_)
\* d or a directory between the search root and d has a name that starts
\* with a dot
BelowHidden(d) ==
    /\ d # "home"
    /\ \/ DirFirstChar[d] = "."
       \/ BelowHidden(CHOOSE p \in DirNames : d \in SubDirs[p])

\* the workspace is cleared and discovery restarted from an empty list and
\* a queue that holds the search root
ClearedAndRestarted ==
    /\ tempFiles = <<>>
    /\ last.prior \cap LiveWorkspaces = {}
    /\ ~timerActive
    /\ currentFilePath = NoPath
    /\ searchPaths # <<>>
    /\ Head(searchPaths) = "home"
    /\ \A p \in RangeOf(fileList) : p.dir \in VisitedDirs

-----------------------------------------------------------------------------
(* Claims about the scan of a tree with symbolic links (checked under       *)
(* SpecLinked)                                                              *)

\* C32: during one scan no directory is enqueued more than once, also when
\* the tree holds a symbolic link to an ancestor directory; the scan ends
\* with the queue exhausted and the timer stopped.
C32_EachDirectoryOnce ==
    /\ \A d \in DirNames : Enqueued(d) <= 1
    /\ (alive /\ ~searchTimerOn) => ScanComplete

-----------------------------------------------------------------------------
(* Claims about where the results of a scan lie (checked under              *)
(* SpecCacheBeside)                                                         *)

\* C33: every path findEncryptedFiles(startPath, useCache) returns lies in
\* the subtree of startPath, whether the results come from the index or
\* from a walk; an archive of a directory beside startPath whose name only
\* begins with startPath's last component is not returned.
C33_ResultsInsideRoot ==
    lastScan.ran =>
        \A q \in lastScan.results : Below(q, lastScan.startPath)

-----------------------------------------------------------------------------
(* Claims about the expiry timer and the tracked workspaces (checked under  *)
(* Spec)                                                                    *)

\* the last handler ran clearContent as its final effect: the Clear button,
\* the timer's timeout or a successful saveAndEncryptFile
ClearedLast == last.op \in {"clear", "expire"} \/ SaveSucceeded

\* C34: the expiry timer is active only while a decrypted workspace is
\* tracked; after clearContent (explicit clear, timer expiry, successful
\* encrypt) the timer is stopped, the tracked list is empty and
\* currentFilePath is empty.
C34_TimerOnlyWhileTracked ==
    /\ timerActive => tempFiles # <<>>
    /\ ClearedLast =>
          /\ ~timerActive
          /\ tempFiles = <<>>
          /\ currentFilePath = NoPath

\* the Clear button was pressed while a workspace was tracked, and left
\* nothing tracked and the timer stopped
C34_Witness ==
    /\ last.op = "clear"
    /\ last.prior # {}
    /\ tempFiles = <<>>
    /\ ~timerActive

-----------------------------------------------------------------------------
(* Claims about the temporary password file (checked under Spec) *)

\* C35: the temporary password file does not outlive the call: on every
\* path on which saveAndEncryptFile created it, whether senc succeeded or
\* failed, the file is gone when the handler returns; on the other paths it
\* was never made.
C35_PasswordFileRemoved == ~pwdFile

\* saveAndEncryptFile wrote the password file and ran senc, which failed
C35_Witness ==
    /\ last.op = "save"
    /\ last.ran
    /\ ~last.ok
    /\ ~pwdFile

-----------------------------------------------------------------------------
(* Claims about what encrypt_file leaves behind (checked under              *)
(* SpecEncryptFaults)                                                       *)

\* the step is a run of encrypt_file
EncryptStep == cPhase = "input" /\ cPhase' = "encoded"

\* C36: encrypt_file never destroys data on failure. With an archive of the
\* output name already there it fails; every failing run (existing output,
\* passwords that differ, a failing cipher) leaves the input, an existing
\* archive and everything else as it was, with no new or partial archive;
\* the input is removed only when the archive written holds the whole input.
C36_NoDataLostOnFailure ==
    [][EncryptStep =>
         LET output_file == cName \o <<SencExt>>
         IN  /\ output_file \in DOMAIN cFs => cRc' # 0
             /\ cRc' # 0 => cFs' = cFs
             /\ (cName \in DOMAIN cFs /\ cName \notin DOMAIN cFs') =>
                   /\ cRc' = 0
                   /\ output_file \in DOMAIN cFs'
                   /\ cFs'[output_file].bytes =
                         Payload(cName, cFs[cName].bytes)]_vars

-----------------------------------------------------------------------------
(* Claims about the archive's scratch directory (checked under SpecCodec) *)

\* the archive's run got as far as mktemp -d: it found its marker line
ScratchMade ==
    /\ cPhase = "decoded"
    /\ FirstMarker(cFs[cName \o <<SencExt>>].lines, 1) # 0

\* C37: the scratch directory of an archive's run, with the extracted
\* ciphertext and the decrypted payload, is removed on every exit path after
\* it was made, success and failure alike: nothing of it is left when the
\* subprocess has ended.
C37_ScratchRemoved == ScratchMade => cOut.scratch = {}

\* a run with a wrong password made the scratch directory, failed in openssl
\* and left nothing of it
C37_Witness ==
    /\ ScratchMade
    /\ cOut.rc # 0
    /\ cOut.err = "Decryption failed - incorrect password?"
    /\ cOut.scratch = {}

-----------------------------------------------------------------------------
(* Claims about the discovered list (checked under SpecRelist) *)

\* C38: the discovered-archive list never holds the same path twice, after
\* any sequence of scan ticks and restarts.
C38_NoPathListedTwice ==
    \A i, j \in DOMAIN fileList : fileList[i] = fileList[j] => i = j

\* a scan restarted by a successful encrypt has listed the archives again,
\* the new archive among them
C38_Witness ==
    /\ SaveSucceeded
    /\ ScanComplete
    /\ Len(fileList) > 1
    /\ NewArchive \in RangeOf(fileList)

=============================================================================
